---------------------------- MODULE Spec2Model ----------------------------
(***************************************************************************)
(* Model of the debate-judging backend: the council of judges              *)
(* (backend/src/services/council.ts), the verdict signer and verifier      *)
(* (services/signing.ts), withRetry (utils/retry.ts), the chunked          *)
(* transcription (services/transcription.ts), the two request handlers     *)
(* POST /judge and POST /judge/stream (index.ts), and the credits of a     *)
(* user (services/payments.ts).                                            *)
(*                                                                         *)
(* JavaScript values are modelled as follows.                              *)
(*   - a plain object used as a map is a sequence of [key, value] entries  *)
(*     in the order Object.entries / JSON.stringify enumerate them:        *)
(*     canonical array-index keys first, in ascending numeric order, then  *)
(*     the other string keys in order of creation;                         *)
(*   - a value that may be null is a sequence of length 0 (null) or 1;     *)
(*   - a score averaged to one decimal place is held in tenths (83 is 8.3) *)
(*   - a string built from a template is the sequence of its pieces.       *)
(* Speaker ids range over ordinary names and canonical array-index         *)
(* strings; names of Object.prototype members are not in the modelled set. *)
(***************************************************************************)
EXTENDS Integers, Sequences, FiniteSets, TLC

VARIABLES
    stage,            \* position of runCouncil: idle, running, returned, threw
    totalJudges,      \* models.length
    judges,           \* per judge: pc, attempt of withRetry (0 outside it), result (null or judgment)
    completedJudges,  \* let completedJudges
    failedJudges,     \* let failedJudges
    verdict,          \* the CouncilVerdict runCouncil returned (null or verdict)
    error,            \* the error runCouncil threw (null or error)
    progressEvents,   \* the progress events handed to onProgress so far, in order
    judgeStatuses,    \* index.ts: const judgeStatuses of POST /judge/stream, per judge
    transcriptSpeakers, \* the ids in transcript.speakers of the transcript runCouncil was given
    mnemonic,         \* process.env.MNEMONIC: unset (null) or the key it derives
    account,          \* signing.ts: let account (null until getWallet first runs)
    signOut,          \* the SignedVerdict of the last signVerdict call (null or SignedVerdict)
    verifyIn,         \* the arguments of the last verifySignedVerdict call (null or arguments)
    computedHash,     \* verifySignedVerdict: const computedHash of that call (null or hash)
    verifyOut,        \* the result of the last verifySignedVerdict call (null or result)
    walletError,      \* the last call threw "MNEMONIC environment variable is required"
    verifyMessageCalls, \* the calls of viem's verifyMessage made so far: their arguments
    retryPc,          \* position of withRetry: idle, calling, sleeping, returned, threw
    maxRetries,       \* withRetry: const maxRetries
    delayMs,          \* withRetry: const delayMs
    backoff,          \* withRetry: const backoff
    onRetry,          \* withRetry: an onRetry callback was passed
    attempt,          \* withRetry: let attempt
    lastError,        \* withRetry: let lastError
    fnCalls,          \* the invocations of fn so far: what each returned or threw
    onRetryCalls,     \* the invocations of onRetry so far: their arguments
    sleeps,           \* the delays passed to sleep so far
    retryOut,         \* what withRetry returned or threw (null while it runs)
    trPc,             \* position of transcribeAudio: idle, single, batch, returned, threw
    provider,         \* transcriptionConfig.provider
    audioLength,      \* totalBuffer.length
    chunkBuffers,     \* the byte ranges transcribed: the chunks, or the whole buffer
    chunkCalls,       \* per chunk call: pc, attempt of withRetry (0 outside it), response
    batchStartIndex,  \* the loop variable i of the batch loop (an index from 0)
    chunkResults,     \* const results of transcribe...ChunksParallel
    settled,          \* the chunk indexes (from 0) of the batch under way, in the order their calls settled
    trOut,            \* what transcribeAudio returned or threw (null while it runs)
    route,            \* the route of the request: judge or stream
    pipePc,           \* position of the request handler: idle, the stage awaited, refunding, done
    request,          \* what the request carries: topic, transcript, audio, models
    rawTranscript,    \* index.ts: rawTranscript (null or text)
    modAttempt,       \* attempt of the withRetry inside moderateContent (0 outside it)
    moderation,       \* index.ts: const moderation (null or ModerationResult)
    formattedTranscript, \* index.ts: const formattedTranscript (null or transcript)
    routeVerdict,     \* index.ts: const verdict (null or verdict)
    signedVerdict,    \* index.ts: const signedVerdict (null or SignedVerdict)
    invoked,          \* the service calls of the request in order: fn, argument, outcome
    sseEvents,        \* the server-sent events written so far: event and step
    creditCost,       \* the credits useCredits deducted for the request
    refunds,          \* the amounts refundCredits gave back
    caught,           \* the message of the error the catch block of /judge/stream holds (null or message)
    httpResponse,     \* the JSON response or the final event (null while the request runs)
    splitPc,          \* position of a call of splitAudioIntoChunks: idle or returned
    splitBuffer,      \* splitAudioIntoChunks: audioBuffer, a sequence of bytes
    splitSize,        \* splitAudioIntoChunks: chunkSizeBytes
    splitRanges,      \* the offset and end of every subarray call, in order
    splitChunks,      \* splitAudioIntoChunks: chunks, as returned
    userCredits,      \* users.credits of the user's row (null while there is no row)
    openingCredits,   \* users.credits before the first call or delivery
    useCalls,         \* per call of useCredits: pc, cost, const user, updated.credits, result
    creditTransactions, \* the rows of credit_transactions, in order of insertion
    webhookCalls      \* per delivery to handleStripeWebhook: the event, pc, updated.credits

councilVars ==
    <<stage, totalJudges, judges, completedJudges, failedJudges, verdict, error, progressEvents,
      judgeStatuses, transcriptSpeakers>>

signVars ==
    <<mnemonic, account, signOut, verifyIn, computedHash, verifyOut, walletError,
      verifyMessageCalls>>

retryVars ==
    <<retryPc, maxRetries, delayMs, backoff, onRetry, attempt, lastError, fnCalls,
      onRetryCalls, sleeps, retryOut>>

transVars ==
    <<trPc, provider, audioLength, chunkBuffers, chunkCalls, batchStartIndex, chunkResults,
      settled, trOut>>

pipeVars ==
    <<route, pipePc, request, rawTranscript, modAttempt, moderation, formattedTranscript,
      routeVerdict, signedVerdict, invoked, sseEvents, creditCost, refunds, caught, httpResponse>>

splitVars == <<splitPc, splitBuffer, splitSize, splitRanges, splitChunks>>

payVars == <<userCredits, openingCredits, useCalls, creditTransactions, webhookCalls>>

vars == <<councilVars, signVars, retryVars, transVars, pipeVars, splitVars, payVars>>

\* what an operation of one service leaves alone
nonCouncilVars == <<signVars, retryVars, transVars, pipeVars, splitVars, payVars>>

nonSignVars == <<councilVars, retryVars, transVars, pipeVars, splitVars, payVars>>

nonRetryVars == <<councilVars, signVars, transVars, pipeVars, splitVars, payVars>>

nonTransVars == <<councilVars, signVars, retryVars, pipeVars, splitVars, payVars>>

nonPipeVars == <<councilVars, signVars, retryVars, transVars, splitVars, payVars>>

nonSplitVars == <<councilVars, signVars, retryVars, transVars, pipeVars, payVars>>

nonPayVars == <<councilVars, signVars, retryVars, transVars, pipeVars, splitVars>>

(***************************************************************************)
(* Bounds and program constants                                            *)
(***************************************************************************)
MaxJudges == 3

\* config.maxRetries
DefaultMaxRetries == 3

COUNCIL_MAX_RETRIES == 5

COUNCIL_RETRY_DELAY_MS == 2000

\* the largest maxRetries passed to withRetry
MaxRetryBudget == 4

\* config.retryDelayMs
DefaultRetryDelayMs == 1000

\* the longest buffer handed to splitAudioIntoChunks on its own, in bytes
MaxBufferLength == 5

\* the largest chunkSizeBytes handed to splitAudioIntoChunks on its own
MaxChunkSize == 3

\* the largest number of chunks an audio buffer is split into
MaxChunks == 5

\* the largest number of useCredits calls under way for the user at once
MaxUseCalls == 2

\* the largest number of deliveries to the Stripe webhook
MaxDeliveries == 2

\* config.whisperChunkSizeMb * 1024 * 1024, with 24 MB
OPENAI_CHUNK_SIZE_BYTES == 25165824

\* 50 * 1024 * 1024
LEMONFOX_CHUNK_SIZE_BYTES == 52428800

MAX_PARALLEL_CHUNKS == 4

\* moderateContent: maxRetries
MODERATION_MAX_RETRIES == 2

\* the largest number of custom models a request names
MaxCustomModels == 2

QUORUM == 2

(***************************************************************************)
(* Input domains                                                           *)
(***************************************************************************)
SpeakerIds == {"A", "B", "1", "2"}

\* ids that are canonical array indices ("1", "2"), with their numeric value
ArrayIndexIds == [i \in {"1", "2"} |-> IF i = "1" THEN 1 ELSE 2]

Confidences == {60, 90}

Score(sp, a, e, d, r, t) ==
    [speaker |-> sp, argumentation |-> a, evidence |-> e, delivery |-> d,
     rebuttal |-> r, total |-> t]

TwoSpeakerScores == << Score("A", 8, 7, 9, 6, 30), Score("B", 7, 8, 6, 9, 31) >>

ThreeSpeakerScores ==
    << Score("2", 0, 5, 5, 5, 15), Score("1", 9, 9, 8, 8, 34), Score("A", 9, 6, 6, 6, 27) >>

\* the speaker ids of the transcripts handed to runCouncil, in transcript order
SpeakerLists == { <<"A", "B">>, <<"A", "B", "1", "2">> }

\* objects generateObject can return under JudgeEvaluationSchema: each winner
\* with a score list that names it, at one of two confidences, and the
\* degenerate ones (empty scores, empty winner, empty reasoning)
RawObjects ==
    [winner : {"1", "2"}, confidence : {90}, scores : {ThreeSpeakerScores}, reasoning : {"r"}]
    \cup { [winner |-> "A", confidence |-> 90, scores |-> TwoSpeakerScores, reasoning |-> "r"],
           [winner |-> "B", confidence |-> 60, scores |-> TwoSpeakerScores, reasoning |-> "r"],
           [winner |-> "", confidence |-> 60, scores |-> TwoSpeakerScores, reasoning |-> "r"],
           [winner |-> "A", confidence |-> 60, scores |-> TwoSpeakerScores, reasoning |-> ""],
           [winner |-> "B", confidence |-> 90, scores |-> <<>>, reasoning |-> "r"] }

(***************************************************************************)
(* Plain objects as ordered maps                                           *)
(***************************************************************************)
IsArrayIndex(k) == k \in DOMAIN ArrayIndexIds

ObjHas(obj, k) == \E i \in 1..Len(obj) : obj[i].key = k

ObjGet(obj, k) == obj[CHOOSE i \in 1..Len(obj) : obj[i].key = k].value

\* where a new key lands in the enumeration order of the object
InsertPos(obj, k) ==
    IF IsArrayIndex(k)
    THEN 1 + Cardinality({i \in 1..Len(obj) :
                 IsArrayIndex(obj[i].key) /\ ArrayIndexIds[obj[i].key] < ArrayIndexIds[k]})
    ELSE Len(obj) + 1

ObjSet(obj, k, v) ==
    IF ObjHas(obj, k)
    THEN [i \in 1..Len(obj) |-> IF obj[i].key = k THEN [key |-> k, value |-> v] ELSE obj[i]]
    ELSE LET p == InsertPos(obj, k)
         IN  SubSeq(obj, 1, p - 1) \o <<[key |-> k, value |-> v]>> \o SubSeq(obj, p, Len(obj))

(***************************************************************************)
(* getJudgeEvaluation: one judge under withRetry                           *)
(***************************************************************************)
\* council.ts line 101: the structural check on a returned object
InvalidResponse(object) ==
    object.winner = "" \/ object.reasoning = ""

(***************************************************************************)
(* runCouncil: aggregation                                                 *)
(***************************************************************************)
\* mutant: the results are cut at the first failed judge
FilterUntilFirstNull(results) ==
    LET F[n \in 0..Len(results)] ==
            IF n = 0 THEN <<>>
            ELSE IF \E m \in 1..n : results[m] = <<>> THEN F[n - 1] ELSE F[n - 1] \o results[n]
    IN  F[Len(results)]

\* results.filter(r => r !== null)
FilterJudgments(results) ==
    LET F[n \in 0..Len(results)] ==
            IF n = 0 THEN <<>>
            ELSE IF results[n] = <<>> THEN F[n - 1] ELSE F[n - 1] \o results[n]
    IN  F[Len(results)]

\* mutant: the quorum test off by one
InsufficientQuorumOffByOne(judgments) == Len(judgments) < QUORUM - 1

InsufficientQuorum(judgments) == Len(judgments) < QUORUM

\* mutant: a vote overwrites the tally instead of adding to it
CountVoteNoAccumulate(voteCount, winner) == ObjSet(voteCount, winner, 1)

\* voteCount[winner] = (voteCount[winner] || 0) + 1
CountVote(voteCount, winner) ==
    ObjSet(voteCount, winner, (IF ObjHas(voteCount, winner) THEN ObjGet(voteCount, winner) ELSE 0) + 1)

TallyVotes(judgments) ==
    LET F[n \in 0..Len(judgments)] ==
            IF n = 0 THEN <<>> ELSE CountVote(F[n - 1], judgments[n].evaluation.winner)
    IN  F[Len(judgments)]

\* mutant: the reducer never replaces its accumulator
PickWinnerFirst(a, b) == a

\* mutant: the reducer replaces its accumulator on equal votes too
PickWinnerLast(a, b) == IF b.value >= a.value THEN b ELSE a

\* the reducer of line 248
PickWinner(a, b) == IF b.value > a.value THEN b ELSE a

\* Object.entries(voteCount).reduce(PickWinner)[0]
FinalWinner(voteCount) ==
    LET F[n \in 1..Len(voteCount)] ==
            IF n = 1 THEN voteCount[1] ELSE PickWinner(F[n - 1], voteCount[n])
    IN  F[Len(voteCount)].key

\* mutant: unanimity measured against all judges, failed ones included
UnanimityOfAllJudges(voteCount, judgments) ==
    \E i \in 1..Len(voteCount) : voteCount[i].value = totalJudges

Unanimity(voteCount, judgments) ==
    \E i \in 1..Len(voteCount) : voteCount[i].value = Len(judgments)

EmptyScores ==
    [argumentation |-> <<>>, evidence |-> <<>>, delivery |-> <<>>, rebuttal |-> <<>>, total |-> <<>>]

\* lines 230-243 for one score entry
CollectScore(scoresBySpeak, score) ==
    LET cur == IF ObjHas(scoresBySpeak, score.speaker)
               THEN ObjGet(scoresBySpeak, score.speaker) ELSE EmptyScores
    IN  ObjSet(scoresBySpeak, score.speaker,
               [argumentation |-> Append(cur.argumentation, score.argumentation),
                evidence      |-> Append(cur.evidence, score.evidence),
                delivery      |-> Append(cur.delivery, score.delivery),
                rebuttal      |-> Append(cur.rebuttal, score.rebuttal),
                total         |-> Append(cur.total, score.total)])

CollectScores(scoresBySpeak, scores) ==
    LET F[n \in 0..Len(scores)] ==
            IF n = 0 THEN scoresBySpeak ELSE CollectScore(F[n - 1], scores[n])
    IN  F[Len(scores)]

ScoresBySpeak(judgments) ==
    LET F[n \in 0..Len(judgments)] ==
            IF n = 0 THEN <<>> ELSE CollectScores(F[n - 1], judgments[n].evaluation.scores)
    IN  F[Len(judgments)]

SumSeq(arr) ==
    LET F[n \in 0..Len(arr)] == IF n = 0 THEN 0 ELSE F[n - 1] + arr[n]
    IN  F[Len(arr)]

\* mutant: the average is cut to one decimal place instead of rounded
TruncatedAvg(arr) ==
    IF Len(arr) > 0 THEN (10 * SumSeq(arr)) \div Len(arr) ELSE 0

\* Math.round(avg(arr) * 10) / 10, in tenths; Math.round rounds a half upwards
RoundedAvg(arr) ==
    IF Len(arr) > 0 THEN (20 * SumSeq(arr) + Len(arr)) \div (2 * Len(arr)) ELSE 0

AverageScores(scoresBySpeak) ==
    [i \in 1..Len(scoresBySpeak) |->
        [speaker       |-> scoresBySpeak[i].key,
         argumentation |-> RoundedAvg(scoresBySpeak[i].value.argumentation),
         evidence      |-> RoundedAvg(scoresBySpeak[i].value.evidence),
         delivery      |-> RoundedAvg(scoresBySpeak[i].value.delivery),
         rebuttal      |-> RoundedAvg(scoresBySpeak[i].value.rebuttal),
         total         |-> RoundedAvg(scoresBySpeak[i].value.total)]]

\* averageScores.find(s => s.speaker === w)?.argumentation when isWinner, and
\* averageScores.find(s => s.speaker !== w)?.argumentation otherwise; null when
\* nothing is found
FindArgumentation(averageScores, w, isWinner) ==
    LET hit == {i \in 1..Len(averageScores) : (averageScores[i].speaker = w) = isWinner}
    IN  IF hit = {} THEN <<>>
        ELSE <<averageScores[CHOOSE i \in hit : \A j \in hit : i <= j].argumentation>>

\* lines 270-273: a ?? 0 > (b ?? 0) parses as a ?? (0 > (b ?? 0))
DecisionBasis(averageScores, finalWinner) ==
    LET a == FindArgumentation(averageScores, finalWinner, TRUE)
        b == FindArgumentation(averageScores, finalWinner, FALSE)
        bOrZero == IF b = <<>> THEN 0 ELSE b[1]
        truthy  == IF a = <<>> THEN 0 > bOrZero ELSE a[1] # 0
    IN  IF truthy THEN "argumentation" ELSE "overall performance"

FailedNote(failed) ==
    IF failed > 0 THEN <<" (", ToString(failed), " judge(s) failed to respond)">> ELSE <<>>

ConsensusSummary(finalWinner, unanimity, voteCount, averageScores, judgments, failed) ==
    LET winnerVotes == ObjGet(voteCount, finalWinner)
        totalVotes  == Len(judgments)
    IN  IF unanimity
        THEN <<"The council unanimously voted for ", finalWinner,
               " as the winner of this debate.">> \o FailedNote(failed)
        ELSE <<"The council voted ", ToString(winnerVotes), "-",
               ToString(totalVotes - winnerVotes), " in favor of ", finalWinner,
               ". The decision was based on superior ",
               DecisionBasis(averageScores, finalWinner),
               " across the evaluated criteria.">> \o FailedNote(failed)

\* lines 217-283
Aggregate(judgments, failed) ==
    LET voteCount     == TallyVotes(judgments)
        finalWinner   == FinalWinner(voteCount)
        unanimity     == Unanimity(voteCount, judgments)
        averageScores == AverageScores(ScoresBySpeak(judgments))
    IN  [finalWinner         |-> finalWinner,
         unanimity           |-> unanimity,
         voteCount           |-> voteCount,
         averageScores       |-> averageScores,
         individualJudgments |-> judgments,
         consensusSummary    |-> ConsensusSummary(finalWinner, unanimity, voteCount,
                                                  averageScores, judgments, failed)]

(***************************************************************************)
(* runCouncil: the run                                                     *)
(***************************************************************************)
\* a CouncilProgress event (council.ts 128-135); an absent field is null and
\* judgeIndex counts from 0
ProgressEvent(step, judgeIndex, n, completed, result) ==
    [step |-> step, judgeIndex |-> judgeIndex, totalJudges |-> n, completedJudges |-> completed,
     winner |-> IF result = <<>> THEN <<>> ELSE <<result[1].evaluation.winner>>,
     confidence |-> IF result = <<>> THEN <<>> ELSE <<result[1].evaluation.confidence>>]

\* mutant: the event carries the count read before completedJudges++
CountBeforeIncrement(before, after) == before

\* council.ts 174-180: completedJudges++ comes before the event is built
CountCarried(before, after) == after

\* mutant: the aggregating event is sent before the quorum test
AggregatingAlways(judgments) == TRUE

\* council.ts 203-215: the throw for a missing quorum precedes the aggregating event
ReachesAggregating(judgments) == ~InsufficientQuorum(judgments)

\* index.ts 320-323: every judge starts as pending
PendingStatuses(n) == [i \in 1..n |-> [status |-> "pending", winner |-> <<>>, confidence |-> <<>>]]

\* index.ts 327-337: the progress callback of POST /judge/stream updates the
\* status of the judge an event names; only judge_started and judge_completed
\* are looked at
OnProgress(statuses, progress) ==
    IF progress.judgeIndex = <<>>
    THEN statuses
    ELSE [statuses EXCEPT ![progress.judgeIndex[1] + 1] =
              CASE progress.step = "judge_started"   ->
                       [status |-> "evaluating", winner |-> <<>>, confidence |-> <<>>]
                [] progress.step = "judge_completed" ->
                       [status |-> "completed", winner |-> progress.winner,
                        confidence |-> progress.confidence]
                [] OTHER -> @]

\* the callback applied to the events of a list, first to last
AfterEvents(statuses, list) ==
    LET F[k \in 0..Len(list)] == IF k = 0 THEN statuses ELSE OnProgress(F[k - 1], list[k])
    IN  F[Len(list)]

CouncilInit ==
    /\ stage = "idle"
    /\ totalJudges = 0
    /\ judges = <<>>
    /\ completedJudges = 0
    /\ failedJudges = 0
    /\ verdict = <<>>
    /\ error = <<>>
    /\ progressEvents = <<>>
    /\ judgeStatuses = <<>>
    /\ transcriptSpeakers = <<>>

\* mutant: the judges are launched one after the other, only the first at once
RunCouncilFirstOnly(n, ids) ==
    /\ stage = "idle"
    /\ transcriptSpeakers' = ids
    /\ stage' = "running"
    /\ totalJudges' = n
    /\ judges' = [i \in 1..n |-> [pc |-> "evaluating", attempt |-> 1, result |-> <<>>]]
    /\ progressEvents' = <<ProgressEvent("judge_started", <<0>>, n, completedJudges, <<>>)>>
    /\ judgeStatuses' = AfterEvents(PendingStatuses(n), progressEvents')
    /\ UNCHANGED <<completedJudges, failedJudges, verdict, error>>
    /\ UNCHANGED nonCouncilVars

\* lines 143-196 up to the first await: models.map starts every judge
RunCouncil(n, ids) ==
    /\ stage = "idle"
    /\ transcriptSpeakers' = ids
    /\ stage' = "running"
    /\ totalJudges' = n
    /\ judges' = [i \in 1..n |-> [pc |-> "evaluating", attempt |-> 1, result |-> <<>>]]
    /\ progressEvents' = [i \in 1..n |-> ProgressEvent("judge_started", <<i - 1>>, n, completedJudges, <<>>)]
    /\ judgeStatuses' = AfterEvents(PendingStatuses(n), progressEvents')
    /\ UNCHANGED <<completedJudges, failedJudges, verdict, error>>
    /\ UNCHANGED nonCouncilVars

\* mutant: withRetry has no ceiling and starts over after its last attempt
AttemptFailedNoCeiling(i) ==
    /\ judges' = [judges EXCEPT ![i].attempt = IF @ = COUNCIL_MAX_RETRIES THEN 1 ELSE @ + 1]
    /\ UNCHANGED <<completedJudges, failedJudges, progressEvents, judgeStatuses>>

\* an attempt of judge i failed: withRetry retries or gives up (retry.ts 35-53),
\* getJudgeEvaluation turns the RetryError into null (council.ts 122-125)
AttemptFailed(i) ==
    IF judges[i].attempt = COUNCIL_MAX_RETRIES
    THEN /\ judges' = [judges EXCEPT ![i].pc = "failed", ![i].attempt = 0]
         /\ failedJudges' = failedJudges + 1
         /\ progressEvents' = Append(progressEvents, ProgressEvent("judge_failed", <<i - 1>>, totalJudges,
                                                   completedJudges, <<>>))
         /\ judgeStatuses' = OnProgress(judgeStatuses, progressEvents'[Len(progressEvents')])
         /\ UNCHANGED completedJudges
    ELSE /\ judges' = [judges EXCEPT ![i].attempt = @ + 1]
         /\ UNCHANGED <<completedJudges, failedJudges, progressEvents, judgeStatuses>>

\* generateObject throws
JudgeCallThrows(i) ==
    /\ stage = "running"
    /\ i \in 1..totalJudges
    /\ judges[i].pc = "evaluating"
    /\ AttemptFailed(i)
    /\ UNCHANGED <<stage, totalJudges, verdict, error, transcriptSpeakers>>
    /\ UNCHANGED nonCouncilVars

\* generateObject returns an object
JudgeCallReturns(i, object) ==
    /\ stage = "running"
    /\ i \in 1..totalJudges
    /\ judges[i].pc = "evaluating"
    /\ IF InvalidResponse(object)
       THEN AttemptFailed(i)
       ELSE /\ judges' = [judges EXCEPT ![i].pc = "completed", ![i].attempt = 0,
                                        ![i].result = <<[judge |-> i, evaluation |-> object]>>]
            /\ completedJudges' = completedJudges + 1
            /\ progressEvents' = Append(progressEvents,
                                ProgressEvent("judge_completed", <<i - 1>>, totalJudges,
                                              CountCarried(completedJudges, completedJudges'),
                                              judges'[i].result))
            /\ judgeStatuses' = OnProgress(judgeStatuses, progressEvents'[Len(progressEvents')])
            /\ UNCHANGED failedJudges
    /\ UNCHANGED <<stage, totalJudges, verdict, error, transcriptSpeakers>>
    /\ UNCHANGED nonCouncilVars

\* mutant: the wait ends as soon as one judge has failed
SettledOrOneFailed ==
    \/ \A i \in 1..totalJudges : judges[i].pc \in {"completed", "failed"}
    \/ \E i \in 1..totalJudges : judges[i].pc = "failed"

\* council.ts 198: await Promise.all over promises that never reject
AllSettled == \A i \in 1..totalJudges : judges[i].pc \in {"completed", "failed"}

\* lines 198-287: after await Promise.all
\* mutant: the results are gathered in the order the judges finished
ResultsInCompletionOrder ==
    LET F[k \in 0..Len(progressEvents)] ==
            IF k = 0 THEN <<>>
            ELSE IF progressEvents[k].step \in {"judge_completed", "judge_failed"}
                 THEN Append(F[k - 1], judges[progressEvents[k].judgeIndex[1] + 1].result)
                 ELSE F[k - 1]
    IN  F[Len(progressEvents)]

\* const results = await Promise.all(judgmentPromises) (council.ts 197): the
\* values of the promises in the order of the array, whatever order they
\* settled in
PromiseAllResults == [i \in 1..totalJudges |-> judges[i].result]

Settle ==
    /\ stage = "running"
    /\ AllSettled
    /\ LET judgments == FilterJudgments(PromiseAllResults)
       IN  IF InsufficientQuorum(judgments)
           THEN /\ stage' = "threw"
                /\ error' = <<[succeeded |-> Len(judgments), total |-> totalJudges]>>
                /\ UNCHANGED verdict
           ELSE /\ stage' = "returned"
                /\ verdict' = <<Aggregate(judgments, failedJudges)>>
                /\ UNCHANGED error
    /\ LET judgments == FilterJudgments(PromiseAllResults)
       IN  progressEvents' = IF ReachesAggregating(judgments)
                     THEN Append(progressEvents, ProgressEvent("aggregating", <<>>, totalJudges,
                                                       Len(judgments), <<>>))
                     ELSE progressEvents
    /\ judgeStatuses' = AfterEvents(judgeStatuses,
                                    SubSeq(progressEvents', Len(progressEvents) + 1,
                                           Len(progressEvents')))
    /\ UNCHANGED <<totalJudges, judges, completedJudges, failedJudges, transcriptSpeakers>>
    /\ UNCHANGED nonCouncilVars

(***************************************************************************)
(* signing.ts: JSON values and JSON.stringify with an array replacer        *)
(*                                                                         *)
(* A JSON value is a tagged tuple: <<"obj", entries>> with entries a        *)
(* sequence of <<key, value>> in property order, <<"arr", items>>, or a     *)
(* leaf <<"str", s>>, <<"num", digits>>, <<"bool", "true" | "false">>.      *)
(* The text JSON.stringify produces is modelled by its token tree, which    *)
(* is in one-to-one correspondence with the text.                          *)
(***************************************************************************)
JStr(s) == <<"str", s>>

JNum(n) == <<"num", ToString(n)>>

JBool(b) == <<"bool", IF b THEN "true" ELSE "false">>

JArr(items) == <<"arr", items>>

JObj(entries) == <<"obj", entries>>

\* every property name of the model in the order of Array.prototype.sort
\* (UTF-16 code units: digits, upper case, lower case)
SortedNames ==
    <<"1", "2", "A", "B", "argumentation", "averageScores", "confidence",
      "consensusSummary", "delivery", "evaluation", "evidence", "finalWinner",
      "individualJudgments", "judge", "reasoning", "rebuttal", "scores",
      "speaker", "total", "unanimity", "voteCount", "winner">>

\* Object.keys(object).sort()
SortedKeys(object) ==
    LET IsKey(k) == \E i \in 1..Len(object[2]) : object[2][i][1] = k
    IN  SelectSeq(SortedNames, IsKey)

\* the value of property k of an object
JGet(object, k) == object[2][CHOOSE i \in 1..Len(object[2]) : object[2][i][1] = k][2]

\* JSON.stringify(value, propertyList): every object, at every depth, is
\* written with the properties of propertyList it has, in propertyList order
RECURSIVE Stringify(_, _)
Stringify(value, propertyList) ==
    IF value[1] = "obj"
    THEN LET IsKey(k) == \E i \in 1..Len(value[2]) : value[2][i][1] = k
             present  == SelectSeq(propertyList, IsKey)
         IN  <<"{", [n \in 1..Len(present) |->
                        <<present[n], Stringify(JGet(value, present[n]), propertyList)>>], "}">>
    ELSE IF value[1] = "arr"
    THEN <<"[", [n \in 1..Len(value[2]) |-> Stringify(value[2][n], propertyList)], "]">>
    ELSE value

\* the CouncilVerdict as the JavaScript object runCouncil builds (council.ts 253-283)
ScoreObject(sc) ==
    JObj(<< <<"speaker", JStr(sc.speaker)>>, <<"argumentation", JNum(sc.argumentation)>>,
            <<"evidence", JNum(sc.evidence)>>, <<"delivery", JNum(sc.delivery)>>,
            <<"rebuttal", JNum(sc.rebuttal)>>, <<"total", JNum(sc.total)>> >>)

EvaluationObject(ev) ==
    JObj(<< <<"winner", JStr(ev.winner)>>, <<"confidence", JNum(ev.confidence)>>,
            <<"scores", JArr([k \in 1..Len(ev.scores) |-> ScoreObject(ev.scores[k])])>>,
            <<"reasoning", JStr(ev.reasoning)>> >>)

JudgmentObject(j) ==
    JObj(<< <<"judge", JStr(ToString(j.judge))>>, <<"evaluation", EvaluationObject(j.evaluation)>> >>)

VerdictObject(v) ==
    JObj(<< <<"finalWinner", JStr(v.finalWinner)>>,
            <<"unanimity", JBool(v.unanimity)>>,
            <<"voteCount", JObj([k \in 1..Len(v.voteCount) |->
                                   <<v.voteCount[k].key, JNum(v.voteCount[k].value)>>])>>,
            <<"averageScores", JArr([k \in 1..Len(v.averageScores) |-> ScoreObject(v.averageScores[k])])>>,
            <<"individualJudgments", JArr([k \in 1..Len(v.individualJudgments) |->
                                             JudgmentObject(v.individualJudgments[k])])>>,
            <<"consensusSummary", JStr(v.consensusSummary)>> >>)

(***************************************************************************)
(* signing.ts: hex strings, keccak256, keys and signatures                  *)
(*                                                                         *)
(* A hex string is its value with the letter case it is written in.         *)
(* keccak256 is collision free: a digest is the bytes it was computed from. *)
(* A signature is the key that made it and the bytes it was made over;      *)
(* recovering the signer over other bytes gives an address of no known key. *)
(***************************************************************************)
Keys == {"k0", "k1"}

LetterCases == {"lower", "UPPER", "Mixed"}

ToLowerCase(hex) == [hex EXCEPT !.case = "lower"]

\* keccak256(toHex(canonical)): lower-case hex of the digest
Keccak256(bytes) == [value |-> <<"keccak256", bytes>>, case |-> "lower"]

\* account.address: the checksummed (mixed-case) address of a key
AddressOf(key) == [value |-> key, case |-> "Mixed"]

\* client.signMessage({account, message: {raw: hash}})
SignMessage(key, hash) == [by |-> key, over |-> hash.value]

MalformedSignature == [by |-> "nobody", over |-> <<>>]

\* recoverMessageAddress inside verifyMessage; it throws on a malformed signature
Recovers(signature) == signature.by \in Keys

RecoverAddress(hash, signature) ==
    IF signature.over = hash.value THEN AddressOf(signature.by) ELSE AddressOf("unknown")

\* verifyMessage({address, message: {raw: hash}, signature}): isAddressEqual
VerifyMessage(address, hash, signature) ==
    ToLowerCase(RecoverAddress(hash, signature)) = ToLowerCase(address)

\* hashVerdict (signing.ts 49-53)
HashVerdict(v) ==
    Keccak256(Stringify(VerdictObject(v), SortedKeys(VerdictObject(v))))

\* mutant: the hashes are compared as written
HashMatchCaseSensitive(computed, hash) == computed = hash

\* signing.ts 107
HashMatch(computed, hash) == ToLowerCase(computed) = ToLowerCase(hash)

\* signing.ts 107-116: the early return keeps the call from the try block of 119-125
ReachesVerifyMessage(computed, hash) == HashMatch(computed, hash)

\* mutant: only the supplied signer is lower-cased
SignerMatchesOneSided(claimedSigner, expectedSigner) ==
    ToLowerCase(claimedSigner) = expectedSigner

\* signing.ts 127: claimedSigner.toLowerCase() === expectedSigner.toLowerCase()
SignerMatches(claimedSigner, expectedSigner) ==
    ToLowerCase(claimedSigner) = ToLowerCase(expectedSigner)

\* mutant: the signature check does not enter the result
ValidIgnoresSignature(isValid, claimedSigner, expectedSigner) ==
    SignerMatches(claimedSigner, expectedSigner)

\* signing.ts 127: valid
Valid(isValid, claimedSigner, expectedSigner) ==
    isValid /\ SignerMatches(claimedSigner, expectedSigner)

\* signing.ts 105-140, given the wallet's address
VerifyResult(v, hash, signature, claimedSigner, expectedSigner) ==
    IF ~HashMatch(HashVerdict(v), hash)
    THEN [valid |-> FALSE, expectedSigner |-> expectedSigner,
          recoveredSigner |-> <<>>, hashMatch |-> FALSE]
    ELSE IF ~Recovers(signature)
    THEN [valid |-> FALSE, expectedSigner |-> expectedSigner,
          recoveredSigner |-> <<>>, hashMatch |-> TRUE]
    ELSE LET isValid == VerifyMessage(expectedSigner, hash, signature)
         IN  [valid |-> Valid(isValid, claimedSigner, expectedSigner),
              expectedSigner |-> expectedSigner,
              recoveredSigner |-> IF isValid THEN <<expectedSigner>> ELSE <<>>,
              hashMatch |-> TRUE]

(***************************************************************************)
(* signing.ts: inputs                                                      *)
(***************************************************************************)
Timestamps == {1, 2}

\* the verdicts runCouncil hands to signVerdict: two judges, no failure
SignableVerdicts ==
    { Aggregate(<< [judge |-> 1, evaluation |-> [winner |-> w1, confidence |-> c1,
                                                  scores |-> TwoSpeakerScores, reasoning |-> "r"]],
                   [judge |-> 2, evaluation |-> [winner |-> "A", confidence |-> 90,
                                                  scores |-> TwoSpeakerScores, reasoning |-> "r"]] >>, 0) :
        w1 \in {"A", "B"}, c1 \in Confidences }

\* a verdict with one scalar field changed after signing
Tampered(v) ==
    { [v EXCEPT !.finalWinner = IF @ = "A" THEN "B" ELSE "A"],
      [v EXCEPT !.unanimity = ~@],
      [v EXCEPT !.voteCount[1].value = @ + 1],
      [v EXCEPT !.averageScores[1].argumentation = @ + 1],
      [v EXCEPT !.individualJudgments[2].evaluation.confidence = 10],
      [v EXCEPT !.individualJudgments[1].evaluation.reasoning = "x"] }

\* the verdicts a caller of /verify may submit
SubmittedVerdicts == SignableVerdicts \cup UNION {Tampered(v) : v \in SignableVerdicts}

SubmittedHashes ==
    {[HashVerdict(v) EXCEPT !.case = c] : v \in SignableVerdicts, c \in {"lower", "UPPER"}}

SubmittedSignatures ==
    {SignMessage(k, HashVerdict(v)) : k \in Keys, v \in SignableVerdicts} \cup {MalformedSignature}

SubmittedSigners ==
    {AddressOf("k0"), ToLowerCase(AddressOf("k0")), AddressOf("k1")}

(***************************************************************************)
(* signing.ts: operations                                                  *)
(***************************************************************************)
SignInit ==
    /\ mnemonic \in {<<>>, <<"k0">>}
    /\ account = <<>>
    /\ signOut = <<>>
    /\ verifyIn = <<>>
    /\ computedHash = <<>>
    /\ verifyOut = <<>>
    /\ walletError = FALSE
    /\ verifyMessageCalls = <<>>

\* getWallet (signing.ts 22-44) when it throws
WalletMissing == account = <<>> /\ mnemonic = <<>>

\* the account getWallet returns
WalletAccount == IF account # <<>> THEN account[1] ELSE mnemonic[1]

\* signVerdict (signing.ts 58-82)
SignVerdict(v, now) ==
    /\ IF WalletMissing
       THEN /\ walletError' = TRUE
            /\ UNCHANGED <<mnemonic, account, signOut, verifyIn, computedHash, verifyOut,
                           verifyMessageCalls>>
       ELSE /\ account' = <<WalletAccount>>
            /\ LET hash == HashVerdict(v)
               IN  signOut' = <<[verdict       |-> v,
                                 hash          |-> hash,
                                 signature     |-> SignMessage(WalletAccount, hash),
                                 signerAddress |-> AddressOf(WalletAccount),
                                 timestamp     |-> now]>>
            /\ walletError' = FALSE
            /\ UNCHANGED <<mnemonic, verifyIn, computedHash, verifyOut, verifyMessageCalls>>
    /\ UNCHANGED nonSignVars

\* verifySignedVerdict (signing.ts 96-141)
VerifySignedVerdict(v, hash, signature, claimedSigner) ==
    /\ IF WalletMissing
       THEN /\ walletError' = TRUE
            /\ UNCHANGED <<mnemonic, account, signOut, verifyIn, computedHash, verifyOut,
                           verifyMessageCalls>>
       ELSE /\ account' = <<WalletAccount>>
            /\ verifyIn' = <<[verdict |-> v, hash |-> hash, signature |-> signature,
                              claimedSigner |-> claimedSigner]>>
            /\ computedHash' = <<HashVerdict(v)>>
            /\ verifyOut' = <<VerifyResult(v, hash, signature, claimedSigner, AddressOf(WalletAccount))>>
            /\ verifyMessageCalls' =
                   IF ReachesVerifyMessage(HashVerdict(v), hash)
                   THEN Append(verifyMessageCalls,
                               [address |-> AddressOf(WalletAccount), message |-> hash,
                                signature |-> signature])
                   ELSE verifyMessageCalls
            /\ walletError' = FALSE
            /\ UNCHANGED <<mnemonic, signOut>>
    /\ UNCHANGED nonSignVars

\* signVerdict is followed once per run, and so is verifySignedVerdict
SignNext ==
    \/ /\ signOut = <<>> /\ verifyIn = <<>>
       /\ \E v \in SignableVerdicts, now \in Timestamps : SignVerdict(v, now)
    \/ /\ verifyIn = <<>>
       /\ \E v \in SubmittedVerdicts, hash \in SubmittedHashes,
             signature \in SubmittedSignatures, claimedSigner \in SubmittedSigners :
               VerifySignedVerdict(v, hash, signature, claimedSigner)

(***************************************************************************)
(* utils/retry.ts                                                          *)
(* A thrown value is an Error or some other value, with the text that      *)
(* error.message or String(error) gives.                                   *)
(***************************************************************************)
ThrownValues ==
    { [isError |-> TRUE, message |-> "e1"], [isError |-> TRUE, message |-> "e2"],
      [isError |-> FALSE, message |-> "s"] }

ReturnValues == {"v1", "v2"}

\* the options a caller passes; an absent option is null
RetryOptions ==
    [ maxRetries : {<<>>} \cup {<<m>> : m \in (0 - 1)..MaxRetryBudget},
      delayMs    : {<<>>, <<COUNCIL_RETRY_DELAY_MS>>},
      backoff    : {<<>>, <<"linear">>, <<"exponential">>},
      onRetry    : BOOLEAN ]

\* retry.ts 23-28: destructuring with defaults
OrDefault(option, default) == IF option = <<>> THEN default ELSE option[1]

\* retry.ts 30
NoAttemptsMade == [isError |-> TRUE, message |-> "No attempts made"]

\* mutant: the first error is kept
KeepFirstError(previous, thrown) ==
    IF previous = NoAttemptsMade THEN [isError |-> TRUE, message |-> thrown.message]
    ELSE previous

\* retry.ts 36: error instanceof Error ? error : new Error(String(error))
NextLastError(previous, thrown) ==
    IF thrown.isError THEN thrown ELSE [isError |-> TRUE, message |-> thrown.message]

\* mutant: gives up one attempt early
IsLastAttemptEarly(n, max) == n + 1 >= max

\* retry.ts 38
IsLastAttempt(n, max) == n = max

\* retry.ts 46-47
\* mutant: linear backoff waits the base delay before every retry
DelayFixedWhenLinear(mode, base, n) ==
    IF mode = "exponential" THEN base * 2^(n - 1) ELSE base

Delay(mode, base, n) ==
    IF mode = "exponential" THEN base * 2^(n - 1) ELSE base * n

\* new RetryError(message, attempts, lastError)
RetryError(message, attempts, cause) ==
    [kind |-> "RetryError", message |-> message, attempts |-> attempts,
     lastError |-> cause, value |-> ""]

Returned(value) ==
    [kind |-> "returned", message |-> <<>>, attempts |-> 0,
     lastError |-> NoAttemptsMade, value |-> value]

RetryInit ==
    /\ retryPc = "idle"
    /\ maxRetries = 0
    /\ delayMs = 0
    /\ backoff = ""
    /\ onRetry = FALSE
    /\ attempt = 0
    /\ lastError = NoAttemptsMade
    /\ fnCalls = <<>>
    /\ onRetryCalls = <<>>
    /\ sleeps = <<>>
    /\ retryOut = <<>>

\* retry.ts 32 and 56: the loop test with attempt = n, and the throw after the loop
LoopTest(n, max, cause) ==
    IF n <= max
    THEN /\ retryPc' = "calling"
         /\ retryOut' = retryOut
    ELSE /\ retryPc' = "threw"
         /\ retryOut' = <<RetryError(<<"Failed after ", max, " attempts">>, max, cause)>>

\* withRetry is called (retry.ts 14-32)
WithRetry(options) ==
    /\ retryPc = "idle"
    /\ maxRetries' = OrDefault(options.maxRetries, DefaultMaxRetries)
    /\ delayMs' = OrDefault(options.delayMs, DefaultRetryDelayMs)
    /\ backoff' = OrDefault(options.backoff, "exponential")
    /\ onRetry' = options.onRetry
    /\ lastError' = NoAttemptsMade
    /\ attempt' = 1
    /\ LoopTest(1, maxRetries', NoAttemptsMade)
    /\ UNCHANGED <<fnCalls, onRetryCalls, sleeps>>
    /\ UNCHANGED nonRetryVars

\* fn() resolves (retry.ts 34)
FnReturns(value) ==
    /\ retryPc = "calling"
    /\ fnCalls' = Append(fnCalls, [threw |-> FALSE, value |-> value, thrown |-> NoAttemptsMade])
    /\ retryPc' = "returned"
    /\ retryOut' = <<Returned(value)>>
    /\ UNCHANGED <<maxRetries, delayMs, backoff, onRetry, attempt, lastError, onRetryCalls, sleeps>>
    /\ UNCHANGED nonRetryVars

\* fn() rejects (retry.ts 35-52), up to the call of sleep
FnThrows(thrown) ==
    /\ retryPc = "calling"
    /\ fnCalls' = Append(fnCalls, [threw |-> TRUE, value |-> "", thrown |-> thrown])
    /\ lastError' = NextLastError(lastError, thrown)
    /\ IF IsLastAttempt(attempt, maxRetries)
       THEN /\ retryPc' = "threw"
            /\ retryOut' = <<RetryError(<<"Failed after ", maxRetries, " attempts: ",
                                          lastError'.message>>, attempt, lastError')>>
            /\ UNCHANGED <<onRetryCalls, sleeps>>
       ELSE /\ onRetryCalls' = IF onRetry
                                THEN Append(onRetryCalls, [attempt |-> attempt, error |-> lastError'])
                                ELSE onRetryCalls
            /\ sleeps' = Append(sleeps, Delay(backoff, delayMs, attempt))
            /\ retryPc' = "sleeping"
            /\ UNCHANGED retryOut
    /\ UNCHANGED <<maxRetries, delayMs, backoff, onRetry, attempt>>
    /\ UNCHANGED nonRetryVars

\* the timer of sleep fires (retry.ts 52, 32): attempt++ and the loop test
SleepElapses ==
    /\ retryPc = "sleeping"
    /\ attempt' = attempt + 1
    /\ LoopTest(attempt + 1, maxRetries, lastError)
    /\ UNCHANGED <<maxRetries, delayMs, backoff, onRetry, lastError, fnCalls, onRetryCalls, sleeps>>
    /\ UNCHANGED nonRetryVars

RetryNext ==
    \/ \E options \in RetryOptions : WithRetry(options)
    \/ \E value \in ReturnValues : FnReturns(value)
    \/ \E thrown \in ThrownValues : FnThrows(thrown)
    \/ SleepElapses

(***************************************************************************)
(* services/transcription.ts                                               *)
(* A text is the sequence of its words and separators; a buffer is known   *)
(* by its length and a chunk by its byte range.  The Lemonfox API key is   *)
(* configured.                                                             *)
(***************************************************************************)
Providers == {"openai", "lemonfox"}

\* transcriptionConfig.lemonfox.speakerLabels
SpeakerLabelsEnabled == TRUE

ChunkSizeBytes(p) ==
    IF p = "lemonfox" THEN LEMONFOX_CHUNK_SIZE_BYTES ELSE OPENAI_CHUNK_SIZE_BYTES

\* the buffer lengths tried: empty, exactly one and two chunk sizes, and one
\* byte more than a whole number of chunk sizes
AudioLengths(p) ==
    {0, ChunkSizeBytes(p), 2 * ChunkSizeBytes(p)}
        \cup {ChunkSizeBytes(p) * c + 1 : c \in 0..(MaxChunks - 1)}

\* mutant: the end of a chunk is not limited to the length of the buffer
First(a, b) == a

Min(a, b) == IF a < b THEN a ELSE b

\* mutant: the loop stops when less than a whole chunk is left
RECURSIVE SplitWholeChunksFrom(_, _, _, _)
SplitWholeChunksFrom(offset, length, chunkSizeBytes, chunks) ==
    IF offset + chunkSizeBytes <= length
    THEN SplitWholeChunksFrom(offset + chunkSizeBytes, length, chunkSizeBytes,
                              Append(chunks, [start |-> offset, end |-> offset + chunkSizeBytes]))
    ELSE chunks

\* splitAudioIntoChunks (transcription.ts 20-31): the loop from a given offset
RECURSIVE SplitFrom(_, _, _, _)
SplitFrom(offset, length, chunkSizeBytes, chunks) ==
    IF offset < length
    THEN LET end == Min(offset + chunkSizeBytes, length)
         IN  SplitFrom(end, length, chunkSizeBytes, Append(chunks, [start |-> offset, end |-> end]))
    ELSE chunks

SplitAudioIntoChunks(length, chunkSizeBytes) == SplitFrom(0, length, chunkSizeBytes, <<>>)

\* the buffers splitAudioIntoChunks is given: bytes are 0 or 1
Buffers == UNION {[1..n -> {0, 1}] : n \in 0..MaxBufferLength}

\* Buffer.prototype.subarray(start, end): the bytes from offset start up to,
\* not including, end; an end past the buffer is taken as its length
Subarray(buffer, start, end) ==
    SubSeq(buffer, start + 1, IF end > Len(buffer) THEN Len(buffer) ELSE end)

SplitInit ==
    /\ splitPc = "idle"
    /\ splitBuffer = <<>>
    /\ splitSize = 1
    /\ splitRanges = <<>>
    /\ splitChunks = <<>>

\* a call of splitAudioIntoChunks, from entry to return (transcription.ts 20-31)
SplitAudio(buffer, size) ==
    /\ splitPc = "idle"
    /\ splitPc' = "returned"
    /\ splitBuffer' = buffer
    /\ splitSize' = size
    /\ splitRanges' = SplitAudioIntoChunks(Len(buffer), size)
    /\ splitChunks' = [j \in 1..Len(splitRanges') |->
                          Subarray(buffer, splitRanges'[j].start, splitRanges'[j].end)]
    /\ UNCHANGED nonSplitVars

SplitNext == \E buffer \in Buffers, size \in 1..MaxChunkSize : SplitAudio(buffer, size)

\* String.prototype.trim on a text whose white space is the piece " "
RECURSIVE TrimStart(_)
TrimStart(text) ==
    IF text # <<>> /\ Head(text) = " " THEN TrimStart(Tail(text)) ELSE text

RECURSIVE TrimEnd(_)
TrimEnd(text) ==
    IF text # <<>> /\ text[Len(text)] = " " THEN TrimEnd(SubSeq(text, 1, Len(text) - 1)) ELSE text

Trim(text) == TrimEnd(TrimStart(text))

\* Array.prototype.join
RECURSIVE Join(_, _)
Join(texts, separator) ==
    IF texts = <<>> THEN <<>>
    ELSE IF Len(texts) = 1 THEN texts[1]
    ELSE texts[1] \o <<separator>> \o Join(Tail(texts), separator)

\* what the provider heard in the chunk with a given index
Word(index, part) == "w" \o ToString(index) \o part

Segment(text, speaker) == [text |-> text, speaker |-> speaker]

\* the responses of the transcription call for a chunk: text, duration (null
\* when absent) and segments (null when absent; speaker null or "" when unlabelled)
ChunkResponses(p, index) ==
    IF p = "lemonfox"
    THEN { [text |-> <<Word(index, "a"), " ", Word(index, "b")>>, duration |-> <<>>,
            segments |-> <<>>],
           [text |-> <<Word(index, "a"), " ", Word(index, "b")>>, duration |-> <<7>>,
            segments |-> << << Segment(<<" ", Word(index, "a")>>, <<"S0">>),
                               Segment(<<" ", Word(index, "b"), " ">>, <<"S1">>) >> >>],
           [text |-> <<Word(index, "a"), " ", Word(index, "b")>>, duration |-> <<7>>,
            segments |-> << << Segment(<<Word(index, "a")>>, <<"S0">>),
                               Segment(<<" ", Word(index, "b")>>, <<>>) >> >>],
           [text |-> <<Word(index, "a")>>, duration |-> <<0>>,
            segments |-> << << Segment(<<Word(index, "a")>>, <<"">>) >> >>] }
    ELSE { [text |-> <<Word(index, "a"), " ", Word(index, "b")>>, duration |-> <<7>>,
            segments |-> <<>>],
           [text |-> <<Word(index, "a")>>, duration |-> <<>>, segments |-> <<>>] }

\* s.speaker as a condition
HasSpeaker(s) == s.speaker # <<>> /\ s.speaker[1] # ""

\* r.duration || 0
DurationOrZero(r) == IF r.duration = <<>> THEN 0 ELSE r.duration[1]

\* r.segments || []
SegmentsOrEmpty(r) == IF r.segments = <<>> THEN <<>> ELSE r.segments[1]

\* the entry a chunk call resolves to (transcription.ts 102-107, 269-272)
ChunkResult(response, index) ==
    [text |-> response.text, duration |-> response.duration,
     segments |-> response.segments, index |-> index]

RECURSIVE InsertDescending(_, _)
InsertDescending(sorted, r) ==
    IF sorted = <<>> \/ sorted[Len(sorted)].index >= r.index THEN Append(sorted, r)
    ELSE Append(InsertDescending(SubSeq(sorted, 1, Len(sorted) - 1), r), sorted[Len(sorted)])

\* mutant: the results are sorted by descending index
RECURSIVE SortByIndexDescending(_)
SortByIndexDescending(rs) ==
    IF rs = <<>> THEN <<>>
    ELSE InsertDescending(SortByIndexDescending(SubSeq(rs, 1, Len(rs) - 1)), rs[Len(rs)])

RECURSIVE InsertByIndex(_, _)
InsertByIndex(sorted, r) ==
    IF sorted = <<>> \/ sorted[Len(sorted)].index <= r.index THEN Append(sorted, r)
    ELSE Append(InsertByIndex(SubSeq(sorted, 1, Len(sorted) - 1), r), sorted[Len(sorted)])

\* results.sort((a, b) => a.index - b.index) (transcription.ts 134, 298): stable
RECURSIVE SortByIndex(_)
SortByIndex(rs) ==
    IF rs = <<>> THEN <<>>
    ELSE InsertByIndex(SortByIndex(SubSeq(rs, 1, Len(rs) - 1)), rs[Len(rs)])

\* results.map((r) => r.text)
Texts(rs) == [j \in 1..Len(rs) |-> rs[j].text]

\* results.reduce((sum, r) => sum + (r.duration || 0), 0)
RECURSIVE TotalDuration(_)
TotalDuration(rs) ==
    IF rs = <<>> THEN 0 ELSE TotalDuration(SubSeq(rs, 1, Len(rs) - 1)) + DurationOrZero(rs[Len(rs)])

\* results.flatMap((r) => r.segments || [])
RECURSIVE AllSegments(_)
AllSegments(rs) ==
    IF rs = <<>> THEN <<>> ELSE SegmentsOrEmpty(rs[1]) \o AllSegments(Tail(rs))

\* .filter((s) => s.speaker).map((s) => `[${s.speaker}]: ${s.text.trim()}`)
RenderedSegments(segments) ==
    LET labelled == SelectSeq(segments, HasSpeaker)
    IN  [j \in 1..Len(labelled) |-> <<"[", labelled[j].speaker[1], "]: ">> \o Trim(labelled[j].text)]

\* transcription.ts 172-187 and 195-210: text and hasSpeakerLabels
Merged(p, texts, segments) ==
    IF p = "lemonfox" /\ SpeakerLabelsEnabled /\ \E j \in 1..Len(segments) : HasSpeaker(segments[j])
    THEN LET speakerSegments == Join(RenderedSegments(segments), "\n\n")
         IN  IF speakerSegments # <<>>
             THEN [text |-> speakerSegments, hasSpeakerLabels |-> TRUE]
             ELSE [text |-> Join(texts, " "), hasSpeakerLabels |-> FALSE]
    ELSE [text |-> Join(texts, " "), hasSpeakerLabels |-> FALSE]

\* the TranscriptionResult (transcription.ts 217-223, 335-341)
TranscriptionResult(p, sorted, chunks) ==
    LET merged   == Merged(p, Texts(sorted), AllSegments(sorted))
        duration == TotalDuration(sorted)
    IN  [kind |-> "returned", text |-> merged.text,
         duration |-> IF duration > 0 THEN <<duration>> ELSE <<>>,
         chunks |-> chunks, provider |-> p, speakerLabels |-> merged.hasSpeakerLabels,
         failedIndex |-> 0]

\* mutant: the failure of a chunk ends the transcription with an empty result
EmptyResultOnFailure(p, index) ==
    [kind |-> "returned", text |-> <<>>, duration |-> <<>>, chunks |-> 0, provider |-> p,
     speakerLabels |-> FALSE, failedIndex |-> index]

\* the RetryError of the chunk call that rejected first
TranscriptionFailure(p, index) ==
    [kind |-> "threw", text |-> <<>>, duration |-> <<>>, chunks |-> 0, provider |-> p,
     speakerLabels |-> FALSE, failedIndex |-> index]

TransInit ==
    /\ trPc = "idle"
    /\ provider = "openai"
    /\ audioLength = 0
    /\ chunkBuffers = <<>>
    /\ chunkCalls = <<>>
    /\ batchStartIndex = 0
    /\ chunkResults = <<>>
    /\ settled = <<>>
    /\ trOut = <<>>

\* mutant: a batch is one chunk longer than the loop's stride
BatchIndexesWider(i, n) == {j \in 0..(n - 1) : i <= j /\ j <= i + MAX_PARALLEL_CHUNKS}

\* the indexes of chunks.slice(i, i + MAX_PARALLEL_CHUNKS)
BatchIndexes(i, n) == {j \in 0..(n - 1) : i <= j /\ j < i + MAX_PARALLEL_CHUNKS}

\* batch.map(...): the chunk calls of the batch at i begin (transcription.ts 124-128, 289-293)
StartBatch(calls, i) ==
    [j \in 1..Len(calls) |->
        IF (j - 1) \in BatchIndexes(i, Len(calls))
        THEN [pc |-> "running", attempt |-> 1, response |-> <<>>]
        ELSE calls[j]]

\* transcribeAudio, up to its first await (transcription.ts 353-372, 147-169, 309-324)
TranscribeAudio(p, length) ==
    /\ trPc = "idle"
    /\ provider' = p
    /\ audioLength' = length
    /\ batchStartIndex' = 0
    /\ IF length > ChunkSizeBytes(p)
       THEN /\ chunkBuffers' = SplitAudioIntoChunks(length, ChunkSizeBytes(p))
            /\ chunkCalls' = StartBatch([j \in 1..Len(chunkBuffers') |->
                                            [pc |-> "waiting", attempt |-> 0, response |-> <<>>]], 0)
            /\ trPc' = "batch"
       ELSE /\ chunkBuffers' = <<[start |-> 0, end |-> length]>>
            /\ chunkCalls' = <<[pc |-> "running", attempt |-> 1, response |-> <<>>]>>
            /\ trPc' = "single"
    /\ UNCHANGED <<chunkResults, settled, trOut>>
    /\ UNCHANGED nonTransVars

\* an attempt of the call for chunk index fails: withRetry retries, or gives up
\* and the chunk call rejects; the first rejection rejects Promise.all and
\* with it transcribeAudio, while the other calls of the batch go on
ChunkCallThrows(index) ==
    /\ index < Len(chunkCalls)
    /\ chunkCalls[index + 1].pc = "running"
    /\ IF IsLastAttempt(chunkCalls[index + 1].attempt, DefaultMaxRetries)
       THEN /\ chunkCalls' = [chunkCalls EXCEPT ![index + 1].pc = "failed", ![index + 1].attempt = 0]
            /\ settled' = Append(settled, index)
            /\ IF trPc \in {"single", "batch"}
               THEN /\ trPc' = "threw"
                    /\ trOut' = <<TranscriptionFailure(provider, index)>>
               ELSE UNCHANGED <<trPc, trOut>>
       ELSE /\ chunkCalls' = [chunkCalls EXCEPT ![index + 1].attempt = @ + 1]
            /\ UNCHANGED <<settled, trPc, trOut>>
    /\ UNCHANGED <<provider, audioLength, chunkBuffers, batchStartIndex, chunkResults>>
    /\ UNCHANGED nonTransVars

\* the call for chunk index resolves; when it is the last of its batch,
\* Promise.all resolves and the loop goes on (transcription.ts 130-140, 295-303)
ChunkCallReturns(index, response) ==
    /\ index < Len(chunkCalls)
    /\ chunkCalls[index + 1].pc = "running"
    /\ LET done    == [chunkCalls EXCEPT ![index + 1].pc = "done", ![index + 1].attempt = 0,
                                          ![index + 1].response = <<response>>]
           n       == Len(chunkCalls)
           batch   == BatchIndexes(batchStartIndex, n)
           pushed  == chunkResults \o
                      [j \in 1..Cardinality(batch) |->
                          ChunkResult(done[batchStartIndex + j].response[1], batchStartIndex + j - 1)]
           next    == batchStartIndex + MAX_PARALLEL_CHUNKS
       IN  IF trPc = "single"
           THEN /\ chunkCalls' = done
                /\ trPc' = "returned"
                /\ trOut' = <<TranscriptionResult(provider, <<ChunkResult(response, 0)>>, 1)>>
                /\ settled' = Append(settled, index)
                /\ UNCHANGED <<batchStartIndex, chunkResults>>
           ELSE IF trPc = "batch" /\ \A j \in batch : done[j + 1].pc = "done"
           THEN IF next < n
                THEN /\ chunkCalls' = StartBatch(done, next)
                     /\ chunkResults' = pushed
                     /\ batchStartIndex' = next
                     /\ settled' = <<>>
                     /\ UNCHANGED <<trPc, trOut>>
                ELSE /\ chunkCalls' = done
                     /\ chunkResults' = SortByIndex(pushed)
                     /\ batchStartIndex' = next
                     /\ trPc' = "returned"
                     /\ trOut' = <<TranscriptionResult(provider, chunkResults', n)>>
                     /\ settled' = Append(settled, index)
           ELSE /\ chunkCalls' = done
                /\ settled' = Append(settled, index)
                /\ UNCHANGED <<batchStartIndex, chunkResults, trPc, trOut>>
    /\ UNCHANGED <<provider, audioLength, chunkBuffers>>
    /\ UNCHANGED nonTransVars

TransNext ==
    \/ \E p \in Providers : \E length \in AudioLengths(p) : TranscribeAudio(p, length)
    \/ \E index \in 0..(MaxChunks - 1) : ChunkCallThrows(index)
    \/ \E index \in 0..(MaxChunks - 1) :
          \E response \in ChunkResponses(provider, index) : ChunkCallReturns(index, response)

(***************************************************************************)
(* index.ts: POST /judge and POST /judge/stream                            *)
(* The services a handler awaits are known by their outcome; a value       *)
(* passed between stages is a string naming it.                            *)
(***************************************************************************)
Requests ==
    [topic : BOOLEAN, transcript : BOOLEAN, audio : BOOLEAN, models : 0..MaxCustomModels]

\* the objects the moderation model returns (ModerationSchema)
ModerationObjects ==
    { [isAppropriate |-> TRUE,  reason |-> <<>>,       flags |-> <<>>],
      [isAppropriate |-> FALSE, reason |-> <<"hate">>, flags |-> <<"f1", "f2">>],
      [isAppropriate |-> FALSE, reason |-> <<>>,       flags |-> <<>>] }

Verdicts == {"V1", "V2"}

\* mutant: what is handed on after signing is the verdict itself
Unsigned(v) == v

SignedOf(v) == "signed:" \o v

\* calculateCost (payments.ts 297-302)
CalculateCost(customModelCount) == IF customModelCount > 0 THEN customModelCount ELSE 1

\* the log of service calls with one more call begun
Call(log, fn, arg) == Append(log, [fn |-> fn, arg |-> arg, outcome |-> "pending"])

\* the log of service calls with the call under way ended
Ended(outcome) == [invoked EXCEPT ![Len(invoked)].outcome = outcome]

JsonResponse(status, kind, message) ==
    [status |-> status, kind |-> kind, error |-> message, id |-> <<>>, signedVerdict |-> <<>>]

\* `Content rejected: ${reason}${flags}` (index.ts 145-147, 291)
RejectionMessage(m) ==
    <<"Content rejected: ", IF m.reason = <<>> THEN "Inappropriate content" ELSE m.reason[1]>>
        \o (IF m.flags = <<>> THEN <<>> ELSE <<" (">> \o Join([j \in 1..Len(m.flags) |-> <<m.flags[j]>>], ", ") \o <<")">>)

\* mutant: a rejection does not stop the handler
NeverRejected(m) == FALSE

\* !moderation.isAppropriate (index.ts 144, 290)
Rejected(m) == ~m.isAppropriate

PipeInit ==
    /\ route = "judge"
    /\ pipePc = "idle"
    /\ request = [topic |-> FALSE, transcript |-> FALSE, audio |-> FALSE, models |-> 0]
    /\ rawTranscript = <<>>
    /\ modAttempt = 0
    /\ moderation = <<>>
    /\ formattedTranscript = <<>>
    /\ routeVerdict = <<>>
    /\ signedVerdict = <<>>
    /\ invoked = <<>>
    /\ sseEvents = <<>>
    /\ creditCost = 0
    /\ refunds = <<>>
    /\ caught = <<>>
    /\ httpResponse = <<>>

\* sendProgress({step, ...}) and stream.writeSSE({event, ...})
Sent(events, steps) == events \o [j \in 1..Len(steps) |-> [event |-> "progress", step |-> steps[j]]]

\* the handler goes on to await the next service call
Continue(pc, log, events) ==
    /\ pipePc' = pc
    /\ invoked' = log
    /\ sseEvents' = events
    /\ UNCHANGED <<httpResponse, caught>>

\* the handler ends: c.json(...) or the last event of the stream
Finish(resp, log, events) ==
    /\ pipePc' = "done"
    /\ invoked' = log
    /\ sseEvents' = events
    /\ httpResponse' = <<resp>>
    /\ UNCHANGED caught

\* an error reaches the catch block: /judge answers 500 (index.ts 180-184),
\* /judge/stream first awaits refundCredits (index.ts 406-412)
Fail(log, message, events) ==
    IF route = "judge"
    THEN Finish(JsonResponse(500, "error", message), log, events)
    ELSE /\ pipePc' = "refunding"
         /\ invoked' = Call(log, "refundCredits", ToString(creditCost))
         /\ sseEvents' = events
         /\ caught' = <<message>>
         /\ UNCHANGED httpResponse

\* POST /judge up to its first await of a service (index.ts 70-143)
PostJudge(req) ==
    /\ pipePc = "idle"
    /\ route' = "judge"
    /\ request' = req
    /\ IF ~req.topic
       THEN /\ Finish(JsonResponse(400, "error", <<"Topic is required">>), invoked, sseEvents)
            /\ UNCHANGED <<rawTranscript, modAttempt>>
       ELSE IF ~req.transcript /\ ~req.audio
       THEN /\ Finish(JsonResponse(400, "error", <<"Either transcript or audio files are required">>),
                      invoked, sseEvents)
            /\ UNCHANGED <<rawTranscript, modAttempt>>
       ELSE IF req.audio
       THEN /\ Continue("transcribing", Call(invoked, "transcribeAudio", "audio"), sseEvents)
            /\ UNCHANGED <<rawTranscript, modAttempt>>
       ELSE /\ Continue("moderating", Call(invoked, "moderateContent", "T"), sseEvents)
            /\ rawTranscript' = <<"T">>
            /\ modAttempt' = 1
    /\ UNCHANGED <<moderation, formattedTranscript, routeVerdict, signedVerdict, creditCost, refunds>>
    /\ UNCHANGED nonPipeVars

\* POST /judge/stream up to its first await of a service (index.ts 189-274);
\* credits is what useCredits did: success, insufficient or threw
PostJudgeStream(req, credits) ==
    /\ pipePc = "idle"
    /\ route' = "stream"
    /\ request' = req
    /\ IF ~req.topic \/ ~req.transcript \/ credits # "success"
       THEN /\ Finish(IF ~req.topic
                      THEN JsonResponse(400, "error", <<"Topic is required">>)
                      ELSE IF ~req.transcript
                      THEN JsonResponse(400, "error", <<"Transcript is required (use /transcribe first for audio)">>)
                      ELSE IF credits = "insufficient"
                      THEN JsonResponse(402, "error", <<"Insufficient credits">>)
                      ELSE JsonResponse(400, "error", <<"Database not configured">>),
                      invoked, sseEvents)
            /\ UNCHANGED <<rawTranscript, modAttempt, creditCost>>
       ELSE /\ creditCost' = CalculateCost(req.models)
            /\ rawTranscript' = <<"T">>
            /\ modAttempt' = 1
            /\ Continue("moderating", Call(invoked, "moderateContent", "T"),
                        Sent(sseEvents, <<"moderating">>))
    /\ UNCHANGED <<moderation, formattedTranscript, routeVerdict, signedVerdict, refunds>>
    /\ UNCHANGED nonPipeVars

\* transcribeAudio ends (index.ts 130-143): text is "T", "" or null when it threw
TranscriptionEnds(text) ==
    /\ pipePc = "transcribing"
    /\ IF text = <<>>
       THEN /\ Fail(Ended("threw"), <<"transcribeAudio failed">>, sseEvents)
            /\ UNCHANGED <<rawTranscript, modAttempt>>
       ELSE /\ rawTranscript' = text
            /\ IF text[1] = ""
               THEN /\ Finish(JsonResponse(500, "error", <<"Failed to obtain transcript">>),
                              Ended("returned"), sseEvents)
                    /\ UNCHANGED modAttempt
               ELSE /\ Continue("moderating", Call(Ended("returned"), "moderateContent", text[1]),
                                sseEvents)
                    /\ modAttempt' = 1
    /\ UNCHANGED <<route, request, moderation, formattedTranscript, routeVerdict, signedVerdict,
                   creditCost, refunds>>
    /\ UNCHANGED nonPipeVars

\* an attempt of the moderation call fails (formatting.ts 431-453): withRetry
\* retries, or gives up and moderateContent throws
ModerationCallThrows ==
    /\ pipePc = "moderating"
    /\ IF IsLastAttempt(modAttempt, MODERATION_MAX_RETRIES)
       THEN /\ modAttempt' = 0
            /\ Fail(Ended("threw"), <<"Failed after ", MODERATION_MAX_RETRIES, " attempts">>, sseEvents)
       ELSE /\ modAttempt' = modAttempt + 1
            /\ UNCHANGED <<pipePc, invoked, sseEvents, httpResponse, caught>>
    /\ UNCHANGED <<route, request, rawTranscript, moderation, formattedTranscript, routeVerdict,
                   signedVerdict, creditCost, refunds>>
    /\ UNCHANGED nonPipeVars

\* the moderation call returns object: moderateContent returns it
\* (formatting.ts 455-464) and the handler tests it (index.ts 144-152, 276-302)
ModerationCallReturns(object) ==
    /\ pipePc = "moderating"
    /\ modAttempt' = 0
    /\ moderation' = <<object>>
    /\ LET events == IF route = "stream" THEN Sent(sseEvents, <<"moderation_complete">>) ELSE sseEvents
       IN  IF Rejected(object)
           THEN IF route = "judge"
                THEN Finish(JsonResponse(400, "error", RejectionMessage(object)), Ended("returned"), events)
                ELSE Fail(Ended("returned"), RejectionMessage(object), events)
           ELSE Continue("formatting", Call(Ended("returned"), "formatTranscript", rawTranscript[1]),
                         IF route = "stream" THEN Sent(events, <<"formatting">>) ELSE events)
    /\ UNCHANGED <<route, request, rawTranscript, formattedTranscript, routeVerdict, signedVerdict,
                   creditCost, refunds>>
    /\ UNCHANGED nonPipeVars

\* formatTranscript ends (index.ts 152-156, 302-325): returned is the
\* transcript, or null when it threw
FormatEnds(returned) ==
    /\ pipePc = "formatting"
    /\ IF returned = <<>>
       THEN /\ Fail(Ended("threw"), <<"formatTranscript failed">>, sseEvents)
            /\ UNCHANGED formattedTranscript
       ELSE /\ formattedTranscript' = returned
            /\ Continue("council", Call(Ended("returned"), "runCouncil", returned[1]),
                        IF route = "stream"
                        THEN Sent(sseEvents, <<"formatting_complete", "council_starting">>)
                        ELSE sseEvents)
    /\ UNCHANGED <<route, request, rawTranscript, modAttempt, moderation, routeVerdict,
                   signedVerdict, creditCost, refunds>>
    /\ UNCHANGED nonPipeVars

\* runCouncil ends (index.ts 156-160, 325-373); its progress events are
\* those of runCouncil
CouncilEnds(returned) ==
    /\ pipePc = "council"
    /\ IF returned = <<>>
       THEN /\ Fail(Ended("threw"), <<"Insufficient judges">>, sseEvents)
            /\ UNCHANGED routeVerdict
       ELSE /\ routeVerdict' = returned
            /\ Continue("signing", Call(Ended("returned"), "signVerdict", returned[1]),
                        IF route = "stream" THEN Sent(sseEvents, <<"signing">>) ELSE sseEvents)
    /\ UNCHANGED <<route, request, rawTranscript, modAttempt, moderation, formattedTranscript,
                   signedVerdict, creditCost, refunds>>
    /\ UNCHANGED nonPipeVars

\* signVerdict ends (index.ts 160-164, 373-383)
SignEnds(threw) ==
    /\ pipePc = "signing"
    /\ IF threw
       THEN /\ Fail(Ended("threw"), <<"MNEMONIC environment variable is required">>, sseEvents)
            /\ UNCHANGED signedVerdict
       ELSE /\ signedVerdict' = <<SignedOf(routeVerdict[1])>>
            /\ Continue("saving", Call(Ended("returned"), "saveJudgment", signedVerdict'[1]),
                        IF route = "stream" THEN Sent(sseEvents, <<"saving">>) ELSE sseEvents)
    /\ UNCHANGED <<route, request, rawTranscript, modAttempt, moderation, formattedTranscript,
                   routeVerdict, creditCost, refunds>>
    /\ UNCHANGED nonPipeVars

\* saveJudgment ends (db 48-98; index.ts 164-184, 383-426): outcome is the
\* id, null (no database configured), or threw
SaveEnds(outcome) ==
    /\ pipePc = "saving"
    /\ IF outcome = "threw"
       THEN Fail(Ended("threw"), <<"saveJudgment failed">>, sseEvents)
       ELSE Finish([status |-> 200, kind |-> "success", error |-> <<>>,
                    id |-> IF outcome = "null" THEN <<>> ELSE <<outcome>>,
                    signedVerdict |-> signedVerdict],
                   Ended("returned"),
                   IF route = "stream"
                   THEN Append(sseEvents, [event |-> "complete", step |-> "complete"])
                   ELSE sseEvents)
    /\ UNCHANGED <<route, request, rawTranscript, modAttempt, moderation, formattedTranscript,
                   routeVerdict, signedVerdict, creditCost, refunds>>
    /\ UNCHANGED nonPipeVars

\* refundCredits ends (index.ts 410-426): a failure of the refund is logged only
RefundEnds(threw) ==
    /\ pipePc = "refunding"
    /\ refunds' = IF threw THEN refunds ELSE Append(refunds, creditCost)
    /\ Finish(JsonResponse(200, "error", caught[1]),
              Ended(IF threw THEN "threw" ELSE "returned"),
              Append(sseEvents, [event |-> "error", step |-> "error"]))
    /\ UNCHANGED <<route, request, rawTranscript, modAttempt, moderation, formattedTranscript,
                   routeVerdict, signedVerdict, creditCost>>
    /\ UNCHANGED nonPipeVars

PipeNext ==
    \/ \E req \in Requests : PostJudge(req)
    \/ \E req \in Requests, credits \in {"success", "insufficient", "threw"} :
          PostJudgeStream(req, credits)
    \/ \E text \in {<<>>, <<"">>, <<"T">>} : TranscriptionEnds(text)
    \/ ModerationCallThrows
    \/ \E object \in ModerationObjects : ModerationCallReturns(object)
    \/ \E returned \in {<<>>, <<"FT">>} : FormatEnds(returned)
    \/ \E returned \in {<<>>} \cup {<<v>> : v \in Verdicts} : CouncilEnds(returned)
    \/ \E threw \in BOOLEAN : SignEnds(threw)
    \/ \E outcome \in {"id1", "null", "threw"} : SaveEnds(outcome)
    \/ \E threw \in BOOLEAN : RefundEnds(threw)

(***************************************************************************)
(* payments.ts: the credits of one user                                    *)
(*                                                                         *)
(* Every sql`...` statement is one atomic step of the database; the code   *)
(* between two awaits runs with the statement that precedes it.            *)
(***************************************************************************)
\* users.credits before anything runs: no row for the user, or a balance
OpeningBalances == {<<>>, <<0>>, <<1>>, <<2>>}

\* calculateCost(customModels?.length): what useCredits is asked to deduct
Costs == {1, 2}

\* the events Stripe delivers: the signature checks or not, the type, the
\* metadata of the session (null when the session is not of this app), its
\* payment_status; credits is metadata.credits, a string
WebhookEvents ==
    { [signed |-> FALSE, type |-> "checkout.session.completed", session |-> "cs_1",
       metadata |-> <<[packId |-> "pack_1", credits |-> "1"]>>, paid |-> TRUE],
      [signed |-> TRUE, type |-> "payment_intent.succeeded", session |-> "",
       metadata |-> <<>>, paid |-> TRUE],
      [signed |-> TRUE, type |-> "checkout.session.completed", session |-> "cs_0",
       metadata |-> <<>>, paid |-> TRUE],
      [signed |-> TRUE, type |-> "checkout.session.completed", session |-> "cs_1",
       metadata |-> <<[packId |-> "pack_1", credits |-> "1"]>>, paid |-> FALSE],
      [signed |-> TRUE, type |-> "checkout.session.completed", session |-> "cs_1",
       metadata |-> <<[packId |-> "pack_1", credits |-> "1"]>>, paid |-> TRUE],
      [signed |-> TRUE, type |-> "checkout.session.completed", session |-> "cs_2",
       metadata |-> <<[packId |-> "pack_5", credits |-> "5"]>>, paid |-> TRUE] }

\* parseInt(credits, 10) of the decimal strings the packs produce
ParseInt(digits) == CHOOSE n \in 0..10 : ToString(n) = digits

PayInit ==
    /\ userCredits \in OpeningBalances
    /\ openingCredits = userCredits
    /\ useCalls = [p \in 1..MaxUseCalls |->
                      [pc |-> "idle", cost |-> 0, user |-> <<>>, updated |-> <<>>, result |-> <<>>]]
    /\ creditTransactions = <<>>
    /\ webhookCalls = <<>>

\* mutant: the UPDATE of useCredits without its test of the balance
AlwaysAffordable(balance, cost) == TRUE

\* WHERE ... AND credits >= ${cost} (payments.ts 327)
Affordable(balance, cost) == balance >= cost

\* useCredits up to the SELECT of getOrCreateUser (payments.ts 308-318, 84-95);
\* sql is whether getSql returned a client
UseCredits(p, cost, sql) ==
    /\ useCalls[p].pc = "idle"
    /\ useCalls' = [useCalls EXCEPT ![p].pc = IF sql THEN "selecting" ELSE "threw",
                                    ![p].cost = cost]
    /\ UNCHANGED <<userCredits, openingCredits, creditTransactions, webhookCalls>>
    /\ UNCHANGED nonPayVars

\* the SELECT of getOrCreateUser (payments.ts 91-98, 108): existing.email is
\* not among the columns read, so the UPDATE of the email follows every time
\* a row is found
SelectUser(p) ==
    /\ useCalls[p].pc = "selecting"
    /\ useCalls' = [useCalls EXCEPT ![p].pc = IF userCredits = <<>> THEN "inserting" ELSE "emailing",
                                    ![p].user = userCredits]
    /\ UNCHANGED <<userCredits, openingCredits, creditTransactions, webhookCalls>>
    /\ UNCHANGED nonPayVars

\* getOrCreateUser has returned user: the test of useCredits (payments.ts 320-322)
UserKnown(p, user) ==
    IF user[1] < useCalls[p].cost
    THEN [useCalls EXCEPT ![p].pc = "returned", ![p].user = user,
                          ![p].result = <<[success |-> FALSE, remaining |-> user[1],
                                           cost |-> useCalls[p].cost]>>]
    ELSE [useCalls EXCEPT ![p].pc = "deducting", ![p].user = user]

\* the UPDATE of the email (payments.ts 100-106)
UpdateEmail(p) ==
    /\ useCalls[p].pc = "emailing"
    /\ useCalls' = UserKnown(p, useCalls[p].user)
    /\ UNCHANGED <<userCredits, openingCredits, creditTransactions, webhookCalls>>
    /\ UNCHANGED nonPayVars

\* the INSERT of getOrCreateUser (payments.ts 109-120): clerk_user_id is
\* UNIQUE (payments.ts 24), so the INSERT fails once another call made the row
InsertUser(p) ==
    /\ useCalls[p].pc = "inserting"
    /\ IF userCredits # <<>>
       THEN /\ useCalls' = [useCalls EXCEPT ![p].pc = "threw"]
            /\ UNCHANGED userCredits
       ELSE /\ userCredits' = <<0>>
            /\ useCalls' = UserKnown(p, <<0>>)
    /\ UNCHANGED <<openingCredits, creditTransactions, webhookCalls>>
    /\ UNCHANGED nonPayVars

\* the UPDATE of useCredits (payments.ts 324-333)
DeductCredits(p) ==
    /\ useCalls[p].pc = "deducting"
    /\ IF Affordable(userCredits[1], useCalls[p].cost)
       THEN /\ userCredits' = <<userCredits[1] - useCalls[p].cost>>
            /\ useCalls' = [useCalls EXCEPT ![p].pc = "recording", ![p].updated = userCredits']
       ELSE /\ useCalls' = [useCalls EXCEPT ![p].pc = "returned",
                                ![p].result = <<[success |-> FALSE, remaining |-> 0,
                                                 cost |-> useCalls[p].cost]>>]
            /\ UNCHANGED userCredits
    /\ UNCHANGED <<openingCredits, creditTransactions, webhookCalls>>
    /\ UNCHANGED nonPayVars

\* the INSERT into credit_transactions of useCredits (payments.ts 335-343)
RecordUsage(p) ==
    /\ useCalls[p].pc = "recording"
    /\ creditTransactions' = Append(creditTransactions,
                                    [amount |-> 0 - useCalls[p].cost, type |-> "usage", session |-> ""])
    /\ useCalls' = [useCalls EXCEPT ![p].pc = "returned",
                        ![p].result = <<[success |-> TRUE, remaining |-> useCalls[p].updated[1],
                                         cost |-> useCalls[p].cost]>>]
    /\ UNCHANGED <<userCredits, openingCredits, webhookCalls>>
    /\ UNCHANGED nonPayVars

\* handleStripeWebhook up to the UPDATE of addCredits (payments.ts 200-229,
\* 247-256): an event that is not a paid checkout of this app ends here
HandleStripeWebhook(event) ==
    /\ Len(webhookCalls) < MaxDeliveries
    /\ webhookCalls' = Append(webhookCalls,
          [event |-> event, updated |-> <<>>,
           pc |-> IF ~event.signed THEN "rejected"
                  ELSE IF event.type # "checkout.session.completed" THEN "received"
                  ELSE IF event.metadata = <<>> THEN "received"
                  ELSE IF ~event.paid THEN "received"
                  ELSE "adding"])
    /\ UNCHANGED <<userCredits, openingCredits, useCalls, creditTransactions>>
    /\ UNCHANGED nonPayVars

\* the UPDATE of addCredits (payments.ts 258-264); without a row nothing is
\* updated
AddCreditsUpdate(d) ==
    /\ d \in 1..Len(webhookCalls)
    /\ webhookCalls[d].pc = "adding"
    /\ userCredits' = IF userCredits = <<>> THEN <<>>
                      ELSE <<userCredits[1] + ParseInt(webhookCalls[d].event.metadata[1].credits)>>
    /\ webhookCalls' = [webhookCalls EXCEPT ![d].pc = "recording", ![d].updated = userCredits']
    /\ UNCHANGED <<openingCredits, useCalls, creditTransactions>>
    /\ UNCHANGED nonPayVars

\* the INSERT of addCredits and the return (payments.ts 266-273, 237-242):
\* user_id REFERENCES users(id), so the INSERT fails without a row
AddCreditsRecord(d) ==
    /\ d \in 1..Len(webhookCalls)
    /\ webhookCalls[d].pc = "recording"
    /\ IF webhookCalls[d].updated = <<>>
       THEN /\ webhookCalls' = [webhookCalls EXCEPT ![d].pc = "threw"]
            /\ UNCHANGED creditTransactions
       ELSE /\ webhookCalls' = [webhookCalls EXCEPT ![d].pc = "received"]
            /\ creditTransactions' = Append(creditTransactions,
                  [amount |-> ParseInt(webhookCalls[d].event.metadata[1].credits),
                   type |-> "purchase", session |-> webhookCalls[d].event.session])
    /\ UNCHANGED <<userCredits, openingCredits, useCalls>>
    /\ UNCHANGED nonPayVars

UseCreditsNext ==
    \/ \E p \in 1..MaxUseCalls, cost \in Costs, sql \in BOOLEAN : UseCredits(p, cost, sql)
    \/ \E p \in 1..MaxUseCalls : SelectUser(p)
    \/ \E p \in 1..MaxUseCalls : UpdateEmail(p)
    \/ \E p \in 1..MaxUseCalls : InsertUser(p)
    \/ \E p \in 1..MaxUseCalls : DeductCredits(p)
    \/ \E p \in 1..MaxUseCalls : RecordUsage(p)

WebhookNext ==
    \/ \E event \in WebhookEvents : HandleStripeWebhook(event)
    \/ \E d \in 1..MaxDeliveries : AddCreditsUpdate(d)
    \/ \E d \in 1..MaxDeliveries : AddCreditsRecord(d)

(***************************************************************************)
(* Specifications                                                          *)
(***************************************************************************)
CouncilNext ==
    \/ \E n \in 1..MaxJudges, ids \in SpeakerLists : RunCouncil(n, ids)
    \/ \E i \in 1..MaxJudges : JudgeCallThrows(i)
    \/ \E i \in 1..MaxJudges, object \in RawObjects : JudgeCallReturns(i, object)
    \/ Settle

\* runCouncil does not read the wallet: its runs start with the key configured
InitCouncil == SplitInit /\ CouncilInit /\ SignInit /\ mnemonic # <<>> /\ RetryInit /\ TransInit /\ PipeInit /\ PayInit /\ userCredits = <<>>

InitSign == SplitInit /\ CouncilInit /\ SignInit /\ RetryInit /\ TransInit /\ PipeInit /\ PayInit /\ userCredits = <<>>

InitRetry == SplitInit /\ CouncilInit /\ SignInit /\ mnemonic # <<>> /\ RetryInit /\ TransInit /\ PipeInit /\ PayInit /\ userCredits = <<>>

InitTrans == SplitInit /\ CouncilInit /\ SignInit /\ mnemonic # <<>> /\ RetryInit /\ TransInit /\ PipeInit /\ PayInit /\ userCredits = <<>>

InitPipe == SplitInit /\ CouncilInit /\ SignInit /\ mnemonic # <<>> /\ RetryInit /\ TransInit /\ PipeInit /\ PayInit /\ userCredits = <<>>

SpecCouncil == InitCouncil /\ [][CouncilNext]_vars

\* the call a judge is waiting for returns or throws
JudgeCallEnds(i) ==
    JudgeCallThrows(i) \/ \E object \in RawObjects : JudgeCallReturns(i, object)

\* the continuation of runCouncil after await Promise.all: the run stops
\* running once every judge promise has settled
PromiseAllResumes ==
    stage = "running" /\ AllSettled /\ stage' \in {"returned", "threw"}

\* every evaluation call under way eventually returns or fails, and the event
\* loop eventually runs the continuation of a settled Promise.all; under
\* CouncilNext the steps of PromiseAllResumes that change stage are the steps
\* of Settle
CouncilFairness ==
    /\ \A i \in 1..MaxJudges : WF_vars(JudgeCallEnds(i))
    /\ WF_stage(PromiseAllResumes)

SpecCouncilLive == InitCouncil /\ [][CouncilNext]_vars /\ CouncilFairness

SpecSign == InitSign /\ [][SignNext]_vars

SpecRetry == InitRetry /\ [][RetryNext]_vars

SpecTrans == InitTrans /\ [][TransNext]_vars

SpecPipe == InitPipe /\ [][PipeNext]_vars

InitSplit == SplitInit /\ CouncilInit /\ SignInit /\ mnemonic # <<>> /\ RetryInit /\ TransInit /\ PipeInit /\ PayInit /\ userCredits = <<>>

SpecSplit == InitSplit /\ [][SplitNext]_vars

InitUseCredits == SplitInit /\ CouncilInit /\ SignInit /\ mnemonic # <<>> /\ RetryInit /\ TransInit /\ PipeInit /\ PayInit

SpecUseCredits == InitUseCredits /\ [][UseCreditsNext]_vars

InitWebhook == SplitInit /\ CouncilInit /\ SignInit /\ mnemonic # <<>> /\ RetryInit /\ TransInit /\ PipeInit /\ PayInit

SpecWebhook == InitWebhook /\ [][WebhookNext]_vars

(***************************************************************************)
(* Properties of runCouncil                                                *)
(***************************************************************************)
\* the judges whose evaluation succeeded
Succeeded == {i \in 1..totalJudges : judges[i].pc = "completed"}

\* the winner named by a judge that succeeded
WinnerOf(i) == judges[i].result[1].evaluation.winner

\* votes for speaker s among the successful judges
VotesFor(s) == Cardinality({i \in Succeeded : WinnerOf(i) = s})

\* the speakers with the greatest number of votes
TopSpeakers == {s \in SpeakerIds : VotesFor(s) > 0 /\ \A t \in SpeakerIds : VotesFor(t) <= VotesFor(s)}

\* the earliest successful judge that voted for s
FirstVoter(s) == CHOOSE i \in Succeeded : WinnerOf(i) = s /\ \A j \in Succeeded : WinnerOf(j) = s => i <= j

\* C1: runCouncil returns a verdict iff at least 2 judges succeeded; with fewer
\* it throws an error naming the number that succeeded and the total, and
\* produces no verdict.
Thm_C1_Quorum ==
    /\ stage = "returned" =>
          /\ Cardinality(Succeeded) >= 2
          /\ Len(verdict) = 1 /\ error = <<>>
    /\ stage = "threw" =>
          /\ Cardinality(Succeeded) < 2
          /\ verdict = <<>>
          /\ error = <<[succeeded |-> Cardinality(Succeeded), total |-> totalJudges]>>
    /\ stage \in {"idle", "running"} => verdict = <<>> /\ error = <<>>

Wit_C1_OneOfThree ==
    stage = "threw" /\ totalJudges = 3 /\ Cardinality(Succeeded) = 1

\* C2: in a returned verdict the voteCount values sum to the number of
\* individualJudgments, each is at least 1, and finalWinner is a key.
Thm_C2_VoteCountSum ==
    stage = "returned" =>
        LET v  == verdict[1]
            vc == v.voteCount
            Sum[n \in 0..Len(vc)] == IF n = 0 THEN 0 ELSE Sum[n - 1] + vc[n].value
        IN  /\ Sum[Len(vc)] = Len(v.individualJudgments)
            /\ \A i \in 1..Len(vc) : vc[i].value >= 1
            /\ \A i, j \in 1..Len(vc) : vc[i].key = vc[j].key => i = j
            /\ \E i \in 1..Len(vc) : vc[i].key = v.finalWinner

Wit_C2_SplitVote ==
    /\ stage = "returned"
    /\ Len(verdict[1].voteCount) = 2
    /\ \E i \in 1..2 : verdict[1].voteCount[i].value = 2

\* C3: in a returned verdict no speaker has more votes than finalWinner.
Thm_C3_WinnerHasMax ==
    stage = "returned" =>
        LET v == verdict[1]
        IN  \A i \in 1..Len(v.voteCount) :
                \E w \in 1..Len(v.voteCount) :
                    /\ v.voteCount[w].key = v.finalWinner
                    /\ v.voteCount[i].value <= v.voteCount[w].value

\* winners [B, A, A]: the winner is not the first speaker voted for
Wit_C3_LaterSpeakerWins ==
    /\ stage = "returned"
    /\ verdict[1].finalWinner = "A"
    /\ verdict[1].voteCount = <<[key |-> "B", value |-> 1], [key |-> "A", value |-> 2]>>

\* C4 as stated: on a tie for the maximum, finalWinner is the tied speaker whose
\* first vote comes from the earliest successful judge, whatever the speaker ids.
Cex_C4_FirstEncounteredWins ==
    (stage = "returned" /\ Cardinality(TopSpeakers) >= 2) =>
        /\ verdict[1].finalWinner \in TopSpeakers
        /\ \A t \in TopSpeakers : FirstVoter(verdict[1].finalWinner) <= FirstVoter(t)

\* C4 amended: on a tie for the maximum, finalWinner is the tied speaker that
\* comes first in the key order of voteCount: the numerically smallest tied id
\* that is a canonical array index if there is one, otherwise the tied speaker
\* whose first vote comes from the earliest successful judge.
Thm_C4_TieBreakKeyOrder ==
    (stage = "returned" /\ Cardinality(TopSpeakers) >= 2) =>
        LET w       == verdict[1].finalWinner
            indexed == {s \in TopSpeakers : s \in DOMAIN ArrayIndexIds}
        IN  /\ w \in TopSpeakers
            /\ IF indexed # {}
               THEN w \in indexed /\ \A t \in indexed : ArrayIndexIds[w] <= ArrayIndexIds[t]
               ELSE \A t \in TopSpeakers : FirstVoter(w) <= FirstVoter(t)

\* a tie between "B", voted for first, and "1": "1" wins
Wit_C4_IndexIdWinsTie ==
    /\ stage = "returned"
    /\ TopSpeakers = {"B", "1"}
    /\ FirstVoter("B") < FirstVoter("1")
    /\ verdict[1].finalWinner = "1"

\* C5: unanimity is true iff some speaker's vote count equals the number of
\* successful judgments, i.e. iff all successful judges named the same
\* winner; failed judges do not count.
Thm_C5_Unanimity ==
    stage = "returned" =>
        /\ verdict[1].unanimity <=> (\E s \in SpeakerIds : VotesFor(s) = Cardinality(Succeeded))
        /\ verdict[1].unanimity <=> (\A i, j \in Succeeded : WinnerOf(i) = WinnerOf(j))

Wit_C5_UnanimousDespiteFailure ==
    /\ stage = "returned"
    /\ verdict[1].unanimity
    /\ failedJudges = 1
    /\ Cardinality(Succeeded) = 2

\* C6: with quorum, a judge that exhausted its retries does not fail the run:
\* individualJudgments holds exactly one entry per successful judge, in judge
\* order, none for a failed judge, and voteCount and averageScores are made of
\* those entries only.
Thm_C6_FailedJudgesExcluded ==
    /\ stage = "threw" => Cardinality(Succeeded) < QUORUM
    /\ stage = "returned" =>
        LET v  == verdict[1]
            js == v.individualJudgments
        IN  /\ Len(js) = Cardinality(Succeeded)
            /\ \A n \in 1..Len(js) : js[n].judge \in Succeeded /\ judges[js[n].judge].result = <<js[n]>>
            /\ \A i \in Succeeded : Cardinality({n \in 1..Len(js) : js[n].judge = i}) = 1
            /\ \A n, m \in 1..Len(js) : n < m => js[n].judge < js[m].judge
            /\ \A s \in SpeakerIds :
                  VotesFor(s) = (IF \E k \in 1..Len(v.voteCount) : v.voteCount[k].key = s
                                 THEN v.voteCount[CHOOSE k \in 1..Len(v.voteCount) : v.voteCount[k].key = s].value
                                 ELSE 0)
            /\ {v.averageScores[k].speaker : k \in 1..Len(v.averageScores)}
                  = UNION {{judges[i].result[1].evaluation.scores[k].speaker :
                               k \in 1..Len(judges[i].result[1].evaluation.scores)} : i \in Succeeded}

\* judge 2 of 3 failed after its last attempt, judges 1 and 3 succeeded
Wit_C6_MiddleJudgeFailed ==
    /\ stage = "returned"
    /\ totalJudges = 3
    /\ judges[2].pc = "failed"
    /\ Succeeded = {1, 3}
    /\ Len(verdict[1].individualJudgments) = 2

(***************************************************************************)
(* Properties of signVerdict and verifySignedVerdict                       *)
(***************************************************************************)
\* the arguments that hand a SignedVerdict back to verifySignedVerdict
ArgumentsOf(sv) ==
    [verdict |-> sv.verdict, hash |-> sv.hash, signature |-> sv.signature,
     claimedSigner |-> sv.signerAddress]

\* C7 as stated: two verdicts that differ in any scalar field, nested ones
\* included, never have the same hash (the verdict signed and the verdict
\* verified are hashed by the same hashVerdict).
Cex_C7_HashSeparatesVerdicts ==
    (signOut # <<>> /\ computedHash # <<>> /\ verifyIn[1].verdict # signOut[1].verdict)
        => computedHash[1] # signOut[1].hash

\* C8 as stated: verifying a verdict changed after signing, with the original
\* hash, signature and signerAddress, gives hashMatch = false and valid = false.
Cex_C8_TamperDetected ==
    ( /\ signOut # <<>> /\ verifyOut # <<>>
      /\ verifyIn[1].verdict # signOut[1].verdict
      /\ verifyIn[1].hash = signOut[1].hash
      /\ verifyIn[1].signature = signOut[1].signature
      /\ verifyIn[1].claimedSigner = signOut[1].signerAddress )
        => ~verifyOut[1].hashMatch /\ ~verifyOut[1].valid

\* C9: verifying the unmodified output of signVerdict under the same key gives
\* hashMatch = true and valid = true.
Thm_C9_SignThenVerify ==
    (signOut # <<>> /\ verifyOut # <<>> /\ verifyIn[1] = ArgumentsOf(signOut[1]))
        => verifyOut[1].hashMatch /\ verifyOut[1].valid

Wit_C9_RoundTrip ==
    /\ signOut # <<>> /\ verifyOut # <<>>
    /\ verifyIn[1] = ArgumentsOf(signOut[1])
    /\ ~signOut[1].verdict.unanimity
    /\ verifyOut[1].valid

\* C10: valid = true only if the recomputed hash equals the supplied hash, the
\* signature was made by the configured key over that hash, and claimedSigner
\* is the configured signer's address up to letter case.
Thm_C10_ValidOnlyForOwnKey ==
    (verifyOut # <<>> /\ verifyOut[1].valid) =>
        /\ computedHash[1].value = verifyIn[1].hash.value
        /\ verifyOut[1].hashMatch
        /\ verifyIn[1].signature.by = mnemonic[1]
        /\ verifyIn[1].signature.over = verifyIn[1].hash.value
        /\ verifyIn[1].claimedSigner.value = mnemonic[1]
        /\ verifyOut[1].expectedSigner.value = mnemonic[1]

\* accepted with the hash and the signer written in another letter case
Wit_C10_ValidUpToCase ==
    /\ verifyOut # <<>> /\ verifyOut[1].valid
    /\ verifyIn[1].hash.case = "UPPER"
    /\ verifyIn[1].claimedSigner.case = "lower"

\* C11: when the recomputed hash differs from the supplied hash after both are
\* lower-cased, verifySignedVerdict returns valid = false, hashMatch = false and
\* no recovered signer, and verifyMessage has not been called; hashes that
\* differ only in the letter case of their hex digits are not a mismatch.
Thm_C11_MismatchSkipsSignature ==
    verifyOut # <<>> =>
        /\ ToLowerCase(computedHash[1]) # ToLowerCase(verifyIn[1].hash) =>
              /\ ~verifyOut[1].valid
              /\ ~verifyOut[1].hashMatch
              /\ verifyOut[1].recoveredSigner = <<>>
              /\ verifyMessageCalls = <<>>
        /\ computedHash[1].value = verifyIn[1].hash.value =>
              /\ verifyOut[1].hashMatch
              /\ Len(verifyMessageCalls) = 1

\* a changed verdict is submitted with the hash, signature and signer of the
\* signed one: the signature is good for the supplied hash, yet never checked
Wit_C11_GoodSignatureNotChecked ==
    /\ signOut # <<>> /\ verifyOut # <<>>
    /\ verifyIn[1].hash = signOut[1].hash
    /\ verifyIn[1].signature = signOut[1].signature
    /\ verifyIn[1].claimedSigner = signOut[1].signerAddress
    /\ computedHash[1] # verifyIn[1].hash
    /\ ~verifyOut[1].hashMatch
    /\ verifyMessageCalls = <<>>

(***************************************************************************)
(* Properties of withRetry                                                 *)
(***************************************************************************)
\* every invocation of fn so far threw
AllThrew == \A j \in 1..Len(fnCalls) : fnCalls[j].threw

\* onRetry was invoked k times, with the attempt numbers 1..k in this order
OnRetrySawAttempts(k) ==
    /\ Len(onRetryCalls) = k
    /\ \A j \in 1..k : onRetryCalls[j].attempt = j

\* C12: with maxRetries >= 1, an operation that fails k < maxRetries times and
\* then succeeds makes withRetry return the success value after exactly k+1
\* invocations, onRetry having been invoked exactly k times with the attempt
\* numbers 1..k in order; after k < maxRetries failures withRetry has not given up.
Thm_C12_SucceedsAfterKFailures ==
    /\ (retryPc # "idle" /\ maxRetries >= 1 /\ AllThrew /\ Len(fnCalls) < maxRetries) =>
          /\ retryPc \in {"calling", "sleeping"}
          /\ retryOut = <<>>
    /\ (fnCalls # <<>> /\ ~fnCalls[Len(fnCalls)].threw) =>
          LET k == Len(fnCalls) - 1
          IN  /\ maxRetries >= 1 /\ k < maxRetries
              /\ \A j \in 1..k : fnCalls[j].threw
              /\ retryPc = "returned"
              /\ retryOut = <<Returned(fnCalls[k + 1].value)>>
              /\ onRetry => OnRetrySawAttempts(k)
              /\ ~onRetry => onRetryCalls = <<>>

\* two failures, then success on the third and last attempt
Wit_C12_SucceedsOnLastAttempt ==
    /\ retryPc = "returned" /\ maxRetries = 3 /\ Len(fnCalls) = 3
    /\ onRetry /\ Len(onRetryCalls) = 2
    /\ retryOut[1].value = "v2"

ChunksIn(pc) == {j \in 0..(Len(chunkCalls) - 1) : chunkCalls[j + 1].pc = pc}

\* the entries of all chunks in ascending index, whatever order they settled in
ByAscendingIndex ==
    [j \in 1..Len(chunkCalls) |-> ChunkResult(chunkCalls[j].response[1], j - 1)]

\* C14: once a chunk call has exhausted its retries, transcribeAudio has
\* thrown: it returns no TranscriptionResult and no text, then or later, and
\* no chunk of a batch after the failing one is ever started.
Thm_C14_ChunkFailureFailsAll ==
    ChunksIn("failed") # {} =>
        /\ trPc = "threw"
        /\ trOut # <<>> /\ trOut[1].kind = "threw" /\ trOut[1].text = <<>>
        /\ trOut[1].failedIndex \in ChunksIn("failed")
        /\ \A j \in 0..(Len(chunkCalls) - 1) :
              j >= batchStartIndex + MAX_PARALLEL_CHUNKS => chunkCalls[j + 1].pc = "waiting"
        /\ \A j \in ChunksIn("failed") :
              batchStartIndex <= j /\ j < batchStartIndex + MAX_PARALLEL_CHUNKS

\* five chunks: the second fails after the other three of its batch
\* succeeded; the fifth chunk is never started
Wit_C14_FifthChunkNeverStarted ==
    /\ trPc = "threw" /\ Len(chunkCalls) = 5
    /\ ChunksIn("failed") = {1}
    /\ ChunksIn("done") = {0, 2, 3}
    /\ ChunksIn("waiting") = {4}

Pieces(text) == {text[j] : j \in 1..Len(text)}

\* C16 as stated: when some segment carries a speaker label, the merged
\* transcript has one entry "[speaker]: text" for every segment the
\* provider returned, so the text of no segment is missing.
Cex_C16_EverySegmentRendered ==
    LET segments == AllSegments(ByAscendingIndex)
    IN  ( /\ trPc = "returned" /\ provider = "lemonfox"
          /\ \E j \in 1..Len(segments) : HasSpeaker(segments[j]) )
            => /\ Cardinality({j \in 1..Len(trOut[1].text) : trOut[1].text[j] = "["}) = Len(segments)
               /\ \A j \in 1..Len(segments) : Pieces(Trim(segments[j].text)) \subseteq Pieces(trOut[1].text)

(***************************************************************************)
(* Properties of the request handlers                                      *)
(***************************************************************************)
\* the service calls of the request with a given name
CallsOf(fn) == {j \in 1..Len(invoked) : invoked[j].fn = fn}

\* C17: when the moderation result says the content is inappropriate,
\* moderateContent returned it (it did not throw), and on neither route is
\* formatTranscript, runCouncil, signVerdict or saveJudgment called in that
\* request; the request ends with an error and no verdict.
Thm_C17_RejectionStopsPipeline ==
    (moderation # <<>> /\ ~moderation[1].isAppropriate) =>
        /\ \A j \in CallsOf("moderateContent") : invoked[j].outcome = "returned"
        /\ \A fn \in {"formatTranscript", "runCouncil", "signVerdict", "saveJudgment"} :
              CallsOf(fn) = {}
        /\ formattedTranscript = <<>> /\ routeVerdict = <<>> /\ signedVerdict = <<>>
        /\ pipePc \in {"refunding", "done"}
        /\ pipePc = "done" =>
              /\ httpResponse[1].kind = "error"
              /\ httpResponse[1].error[1] = "Content rejected: "
              /\ route = "judge" => httpResponse[1].status = 400

\* a rejected /judge/stream request: moderation was the only stage called,
\* the credit went back and the stream ended with the error event
Wit_C17_StreamRejected ==
    /\ route = "stream" /\ pipePc = "done"
    /\ moderation # <<>> /\ ~moderation[1].isAppropriate
    /\ Len(invoked) = 2 /\ invoked[1].fn = "moderateContent" /\ invoked[2].fn = "refundCredits"
    /\ refunds = <<creditCost>>
    /\ sseEvents[Len(sseEvents)].event = "error"

\* C18 as stated: when saveJudgment throws, the request still ends with
\* the success result carrying the SignedVerdict.
Cex_C18_SaveFailureNotFatal ==
    (pipePc = "done" /\ \E j \in CallsOf("saveJudgment") : invoked[j].outcome = "threw") =>
        /\ httpResponse[1].kind = "success"
        /\ httpResponse[1].signedVerdict = signedVerdict


(***************************************************************************)
(* Properties of the progress events of runCouncil                         *)
(***************************************************************************)
\* positions in the log of the events of one step about judge i (1-based)
EventsOf(step, i) ==
    {k \in 1..Len(progressEvents) :
        progressEvents[k].step = step /\ progressEvents[k].judgeIndex = <<i - 1>>}

TerminalEvents(i) == EventsOf("judge_completed", i) \cup EventsOf("judge_failed", i)

AggregatingEvents == {k \in 1..Len(progressEvents) : progressEvents[k].step = "aggregating"}

RunOver == stage \in {"returned", "threw"}

\* C19: for each judge the callback receives exactly one judge_started and,
\* later, exactly one of judge_completed or judge_failed (at most one while the
\* run is under way, exactly one once it is over); the aggregating event is
\* sent at most once, after every judge's terminal event, and only when at
\* least two judges succeeded.
Thm_C19_EventProtocol ==
    stage # "idle" =>
        /\ \A i \in 1..totalJudges :
              /\ Cardinality(EventsOf("judge_started", i)) = 1
              /\ Cardinality(TerminalEvents(i)) <= 1
              /\ RunOver => Cardinality(TerminalEvents(i)) = 1
              /\ \A s \in EventsOf("judge_started", i) : \A t \in TerminalEvents(i) : s < t
              /\ EventsOf("judge_completed", i) # {} <=> judges[i].pc = "completed"
              /\ EventsOf("judge_failed", i) # {} <=> judges[i].pc = "failed"
        /\ Cardinality(AggregatingEvents) <= 1
        /\ \A a \in AggregatingEvents :
              /\ Cardinality(Succeeded) >= QUORUM
              /\ \A i \in 1..totalJudges :
                    TerminalEvents(i) # {} /\ \A t \in TerminalEvents(i) : t < a
        /\ stage = "threw" => AggregatingEvents = {}
        /\ stage = "returned" => AggregatingEvents = {Len(progressEvents)}

Wit_C19_FailedJudgeThenAggregating ==
    /\ stage = "returned"
    /\ totalJudges = 3
    /\ Len(progressEvents) = 7
    /\ progressEvents[4].step = "judge_completed" /\ progressEvents[4].judgeIndex = <<2>>
    /\ progressEvents[5].step = "judge_failed" /\ progressEvents[5].judgeIndex = <<0>>
    /\ progressEvents[6].step = "judge_completed" /\ progressEvents[6].judgeIndex = <<1>>
    /\ progressEvents[7].step = "aggregating"

\* number of judge_completed events among the first k events of the log
CompletedBefore(k) ==
    Cardinality({j \in 1..(k - 1) : progressEvents[j].step = "judge_completed"})

\* C20: whatever the order in which the judges complete, completedJudges never
\* decreases from one event to the next, a judge_completed event carries one
\* more than the number of judge_completed events before it, and the
\* aggregating event carries the number of successful judgments.
Thm_C20_CompletedJudgesCount ==
    /\ \A k \in 1..(Len(progressEvents) - 1) :
          progressEvents[k].completedJudges <= progressEvents[k + 1].completedJudges
    /\ \A k \in 1..Len(progressEvents) :
          /\ progressEvents[k].step = "judge_completed" =>
                progressEvents[k].completedJudges = CompletedBefore(k) + 1
          /\ progressEvents[k].step = "aggregating" =>
                progressEvents[k].completedJudges = Cardinality(Succeeded)

Wit_C20_CountAcrossFailure ==
    /\ stage = "returned"
    /\ totalJudges = 3
    /\ [k \in 1..Len(progressEvents) |-> progressEvents[k].completedJudges] = <<0, 0, 0, 1, 1, 2, 2>>
    /\ progressEvents[4].judgeIndex = <<1>>
    /\ progressEvents[5].step = "judge_failed"
    /\ progressEvents[6].judgeIndex = <<0>>

(***************************************************************************)
(* Properties of the judge statuses of POST /judge/stream                  *)
(***************************************************************************)
\* C21 as stated: when the council stage has ended (verdict returned or quorum
\* error raised) the snapshot shows every judge as completed or failed, and a
\* judge whose evaluation failed is not shown as pending or evaluating.
Cex_C21_StatusesSettled ==
    RunOver =>
        \A i \in 1..totalJudges :
            /\ judgeStatuses[i].status \in {"completed", "failed"}
            /\ judges[i].pc = "failed" => judgeStatuses[i].status \notin {"pending", "evaluating"}

(***************************************************************************)
(* Properties of getJudgeEvaluation                                        *)
(***************************************************************************)
\* what the claim C22 requires of an accepted result (confidence is a number
\* in every object of the schema)
WellFormed(object) ==
    object.winner # "" /\ object.scores # <<>> /\ object.reasoning # ""

\* C22 as stated: a raw result becomes a successful judgment only if it has a
\* non-empty winner, a numeric confidence, a non-empty scores list and
\* non-empty reasoning; a result failing a check, scores = [] included, is a
\* failed attempt and never appears in individualJudgments.
Cex_C22_OnlyWellFormedAccepted ==
    /\ \A i \in 1..totalJudges :
          judges[i].pc = "completed" => WellFormed(judges[i].result[1].evaluation)
    /\ stage = "returned" =>
          \A k \in 1..Len(verdict[1].individualJudgments) :
              WellFormed(verdict[1].individualJudgments[k].evaluation)

\* the speaker ids declared in the transcript
DeclaredSpeakers == {transcriptSpeakers[k] : k \in 1..Len(transcriptSpeakers)}

\* C23 as stated: in every returned verdict the winner of every individual
\* judgment, finalWinner and every key of voteCount are ids of speakers
\* declared in the transcript's speakers list.
Cex_C23_WinnersAreDeclaredSpeakers ==
    stage = "returned" =>
        LET v == verdict[1]
        IN  /\ \A k \in 1..Len(v.individualJudgments) :
                  v.individualJudgments[k].evaluation.winner \in DeclaredSpeakers
            /\ v.finalWinner \in DeclaredSpeakers
            /\ \A k \in 1..Len(v.voteCount) : v.voteCount[k].key \in DeclaredSpeakers

(***************************************************************************)
(* Properties of consensusSummary and averageScores                        *)
(***************************************************************************)
\* an average argumentation score found in averageScores, 0 when none is found
ArgumentationOrZero(found) == IF found = <<>> THEN 0 ELSE found[1]

\* the piece of a non-unanimous summary that follows "based on superior "
BasisIn(summary) == summary[8]

\* C24 as stated: in a non-unanimous verdict the summary says "argumentation"
\* iff the winner's average argumentation is strictly greater than the
\* runner-up's (the other speaker the code looks up), and "overall
\* performance" otherwise.
Cex_C24_BasisComparesArgumentation ==
    (stage = "returned" /\ ~verdict[1].unanimity) =>
        LET v        == verdict[1]
            winnerArg == ArgumentationOrZero(FindArgumentation(v.averageScores, v.finalWinner, TRUE))
            otherArg == ArgumentationOrZero(FindArgumentation(v.averageScores, v.finalWinner, FALSE))
        IN  /\ BasisIn(v.consensusSummary) \in {"argumentation", "overall performance"}
            /\ BasisIn(v.consensusSummary) = "argumentation" <=> winnerArg > otherArg

Dimensions == {"argumentation", "evidence", "delivery", "rebuttal", "total"}

\* the score entries of one judgment that name speaker sp
EntriesFor(judgment, sp) ==
    {j \in 1..Len(judgment.evaluation.scores) : judgment.evaluation.scores[j].speaker = sp}

\* the judgments of a list that scored speaker sp
Scorers(list, sp) == {k \in 1..Len(list) : EntriesFor(list[k], sp) # {}}

\* the sum of one dimension of speaker sp over the judgments that scored sp
DimensionSum(list, sp, dim) ==
    LET F[k \in 0..Len(list)] ==
            IF k = 0 THEN 0
            ELSE LET entries == EntriesFor(list[k], sp)
                 IN  IF entries = {} THEN F[k - 1]
                     ELSE F[k - 1] + list[k].evaluation.scores[CHOOSE j \in entries : TRUE][dim]
    IN  F[Len(list)]

\* tenths is total / n rounded to one decimal place, a half rounding upwards
IsRoundedMean(tenths, total, n) ==
    2 * tenths * n <= 20 * total + n /\ 20 * total + n < 2 * (tenths + 1) * n

ScoredSpeakers(list) == {sp \in SpeakerIds : Scorers(list, sp) # {}}

EntriesOfSpeaker(averageScores, sp) ==
    {i \in 1..Len(averageScores) : averageScores[i].speaker = sp}

\* C25: in a returned verdict averageScores has exactly one entry for every
\* speaker scored by at least one successful judgment and none for any other;
\* each of its five dimensions is the mean of that dimension over the
\* judgments that scored the speaker, rounded to one decimal place, so the
\* divisor is the number of those judgments, not of all judgments.
Thm_C25_AverageOverScorers ==
    stage = "returned" =>
        LET v    == verdict[1]
            list == v.individualJudgments
        IN  /\ \A i \in 1..Len(v.averageScores) :
                  v.averageScores[i].speaker \in ScoredSpeakers(list)
            /\ \A sp \in ScoredSpeakers(list) :
                  /\ Cardinality(EntriesOfSpeaker(v.averageScores, sp)) = 1
                  /\ \A i \in EntriesOfSpeaker(v.averageScores, sp), dim \in Dimensions :
                        IsRoundedMean(v.averageScores[i][dim], DimensionSum(list, sp, dim),
                                      Cardinality(Scorers(list, sp)))

\* speaker "1" is scored by two of the three judgments only, and speaker A by
\* all three with a mean (8 + 9 + 9) / 3 that has to be rounded
Wit_C25_ScoredByTwoOfThree ==
    /\ stage = "returned"
    /\ Len(verdict[1].individualJudgments) = 3
    /\ Cardinality(Scorers(verdict[1].individualJudgments, "1")) = 2
    /\ \E i \in 1..Len(verdict[1].averageScores) :
          verdict[1].averageScores[i].speaker = "1" /\ verdict[1].averageScores[i].argumentation = 90
    /\ \E i \in 1..Len(verdict[1].averageScores) :
          verdict[1].averageScores[i].speaker = "A" /\ verdict[1].averageScores[i].argumentation = 87

(***************************************************************************)
(* Properties of the fan-out of runCouncil                                 *)
(***************************************************************************)
\* the judges whose record a step changes
JudgesChanged == {i \in 1..totalJudges : judges'[i] # judges[i]}

\* C26: runCouncil leaves the wait (to aggregate or to raise the quorum error)
\* only when every judge is completed or failed; while it waits a step is one
\* judge's own call ending and changes no other judge, and a judge becomes
\* failed only on the failure of its own last attempt.
Thm_C26_WaitsForEveryJudge ==
    [][ stage = "running" =>
          /\ stage' # "running" =>
                \A i \in 1..totalJudges : judges[i].pc \in {"completed", "failed"}
          /\ stage' = "running" => Cardinality(JudgesChanged) <= 1
          /\ \A i \in 1..totalJudges :
                (judges[i].pc = "evaluating" /\ judges'[i].pc = "failed")
                    => judges[i].attempt = COUNCIL_MAX_RETRIES ]_vars

\* judge 0 failed first; the other two went on, one of them through retries of
\* its own, and completed afterwards
Wit_C26_SiblingsFinishAfterFailure ==
    /\ stage = "returned"
    /\ totalJudges = 3
    /\ progressEvents[4].step = "judge_failed" /\ progressEvents[4].judgeIndex = <<0>>
    /\ progressEvents[5].step = "judge_completed"
    /\ progressEvents[6].step = "judge_completed"
    /\ failedJudges = 1

(***************************************************************************)
(* Properties of the chunk batches of transcribeAudio                      *)
(***************************************************************************)
\* the chunk calls (indexes from 0) that have begun and not yet settled
InFlight == {j \in 0..(Len(chunkCalls) - 1) : chunkCalls[j + 1].pc = "running"}

\* C27 as stated: the fan-out of a batch never short-circuits; when a chunk
\* call fails after its retries the failure of the transcription reaches the
\* caller only once every other chunk call of the batch has settled.
Cex_C27_FailureAfterBatchSettled ==
    trPc = "threw" =>
        \A j \in BatchIndexes(batchStartIndex, Len(chunkCalls)) : j \notin InFlight

\* the first chunk index of the batch chunk j belongs to
BatchStartOf(j) == (j \div MAX_PARALLEL_CHUNKS) * MAX_PARALLEL_CHUNKS

\* C28: at most 4 chunk calls are in flight at any moment, and a chunk call has
\* begun only if every chunk of the batches before its own has completed
\* successfully.
Thm_C28_BoundedBatches ==
    /\ Cardinality(InFlight) <= MAX_PARALLEL_CHUNKS
    /\ \A j \in 0..(Len(chunkCalls) - 1) :
          chunkCalls[j + 1].pc # "waiting" =>
              \A i \in 0..(BatchStartOf(j) - 1) : chunkCalls[i + 1].pc = "done"

\* five chunks: four calls in flight, the fifth held back
Wit_C28_FifthChunkHeldBack ==
    /\ trPc = "batch"
    /\ Len(chunkCalls) = 5
    /\ InFlight = {0, 1, 2, 3}
    /\ chunkCalls[5].pc = "waiting"

(***************************************************************************)
(* Properties of the order of the pipeline stages                          *)
(***************************************************************************)
StageOrder ==
    <<"moderateContent", "formatTranscript", "runCouncil", "signVerdict", "saveJudgment">>

\* the positions in the log of the calls of the five stages
StageCalls == {k \in 1..Len(invoked) : \E j \in 1..Len(StageOrder) : invoked[k].fn = StageOrder[j]}

\* the number of stage calls among the first k calls of the log
StageRank(k) == Cardinality({j \in StageCalls : j <= k})

\* C29: the stage calls of a request are, in order, moderation, formatting,
\* council, signing, persistence, each at most once; a stage is called only
\* when the call before it has returned (and, for moderation, approved);
\* signVerdict is called with the verdict runCouncil returned and saveJudgment
\* with the SignedVerdict signVerdict returned for it.
Thm_C29_StagesInOrder ==
    /\ \A k \in StageCalls : invoked[k].fn = StageOrder[StageRank(k)]
    /\ \A k \in StageCalls :
          k > 1 => /\ invoked[k - 1].outcome = "returned"
                   /\ StageRank(k) > 1 => (k - 1) \in StageCalls
    /\ \A k \in StageCalls :
          StageRank(k) > 1 => (moderation # <<>> /\ moderation[1].isAppropriate)
    /\ \A k \in StageCalls :
          /\ invoked[k].fn = "signVerdict" =>
                (routeVerdict = <<invoked[k].arg>> /\ invoked[k].arg \in Verdicts)
          /\ invoked[k].fn = "saveJudgment" =>
                /\ signedVerdict = <<invoked[k].arg>>
                /\ invoked[k].arg = "signed:" \o invoked[k - 1].arg

\* POST /judge with audio: transcription, then the five stages, all returned
Wit_C29_AllStagesRan ==
    /\ pipePc = "done"
    /\ route = "judge"
    /\ httpResponse[1].kind = "success"
    /\ [k \in 1..Len(invoked) |-> invoked[k].fn] = <<"transcribeAudio">> \o StageOrder
    /\ invoked[5].arg = "V2"

(***************************************************************************)
(* Properties of the delays of withRetry                                   *)
(***************************************************************************)
\* the k-th delay passed to sleep is the one that follows failed attempt k
\* C30 as stated: the delay before the retry that follows failed attempt n is
\* baseDelay for linear backoff, the same for every n, and baseDelay * 2^(n-1)
\* for exponential backoff.
Cex_C30_LinearDelayFixed ==
    \A n \in 1..Len(sleeps) :
        sleeps[n] = IF backoff = "exponential" THEN delayMs * 2^(n - 1) ELSE delayMs

\* C30 amended: withRetry sleeps only after a failed attempt n with
\* 1 <= n < maxRetries, and the delay is baseDelay * n for linear backoff
\* (baseDelay, 2 baseDelay, 3 baseDelay, ...) and baseDelay * 2^(n-1) for
\* exponential backoff.
Thm_C30_DelayGrows ==
    /\ Len(sleeps) > 0 => Len(sleeps) < maxRetries
    /\ \A n \in 1..Len(sleeps) :
          /\ backoff = "linear" => sleeps[n] = delayMs * n
          /\ backoff = "exponential" => sleeps[n] = delayMs * 2^(n - 1)
          /\ fnCalls[n].threw

Wit_C30_ThreeLinearDelays ==
    /\ backoff = "linear"
    /\ delayMs = COUNCIL_RETRY_DELAY_MS
    /\ sleeps = <<2000, 4000, 6000>>

(***************************************************************************)
(* Properties of splitAudioIntoChunks                                      *)
(***************************************************************************)
\* the chunks of a list joined end to end
Concatenation(chunks) ==
    LET F[k \in 0..Len(chunks)] == IF k = 0 THEN <<>> ELSE F[k - 1] \o chunks[k]
    IN  F[Len(chunks)]

\* C31: for every buffer and every chunkSizeBytes >= 1 the chunks returned are
\* contiguous, non-overlapping and in order, their concatenation is the input
\* buffer, each is at most chunkSizeBytes long and every chunk but possibly
\* the last is exactly chunkSizeBytes long.
Thm_C31_ChunksPartitionBuffer ==
    splitPc = "returned" =>
        LET n == Len(splitChunks)
        IN  /\ n = Len(splitRanges)
            /\ n > 0 => (splitRanges[1].start = 0 /\ splitRanges[n].end = Len(splitBuffer))
            /\ \A j \in 1..n :
                  /\ splitRanges[j].start < splitRanges[j].end
                  /\ j < n => splitRanges[j + 1].start = splitRanges[j].end
                  /\ Len(splitChunks[j]) = splitRanges[j].end - splitRanges[j].start
                  /\ Len(splitChunks[j]) <= splitSize
                  /\ j < n => Len(splitChunks[j]) = splitSize
            /\ Concatenation(splitChunks) = splitBuffer

\* five bytes in chunks of two: two whole chunks and a shorter last one
Wit_C31_ShorterLastChunk ==
    /\ splitPc = "returned"
    /\ splitBuffer = <<1, 0, 0, 1, 1>>
    /\ splitSize = 2
    /\ splitChunks = << <<1, 0>>, <<0, 1>>, <<1>> >>

Thm_C33_OwnBudgetOfFive ==
    [][ stage = "running" =>
          \A i \in 1..totalJudges :
              /\ judges[i].attempt <= 5 /\ judges'[i].attempt <= 5
              /\ judges[i].pc = "evaluating" =>
                    \/ judges'[i] = judges[i]
                    \/ /\ judges'[i].pc = "evaluating"
                       /\ judges'[i].attempt = judges[i].attempt + 1
                       /\ \A j \in 1..totalJudges : j # i => judges'[j] = judges[j]
                    \/ /\ judges'[i].pc = "failed"
                       /\ judges[i].attempt = 5
                       /\ \A j \in 1..totalJudges : j # i => judges'[j] = judges[j]
                    \/ /\ judges'[i].pc = "completed"
                       /\ \A j \in 1..totalJudges : j # i => judges'[j] = judges[j] ]_vars

\* judge 0 has used up its five attempts while judge 1 is at its second call
\* and judge 2 at its fifth
Wit_C33_BudgetsApart ==
    /\ stage = "running"
    /\ totalJudges = 3
    /\ judges[1].pc = "failed"
    /\ judges[2].pc = "evaluating" /\ judges[2].attempt = 2
    /\ judges[3].pc = "evaluating" /\ judges[3].attempt = 5

(***************************************************************************)
(* Properties of the launch of the judges                                  *)
(***************************************************************************)
\* C34: all judges are launched before any of them finishes: the first events
\* of a run are the judge_started events of all its judges, in judge order
\* and with no judge completed yet, and every judge_completed or judge_failed
\* event comes after them.
Thm_C34_AllStartedFirst ==
    stage # "idle" =>
        /\ Len(progressEvents) >= totalJudges
        /\ \A k \in 1..Len(progressEvents) :
              IF k <= totalJudges
              THEN /\ progressEvents[k].step = "judge_started"
                   /\ progressEvents[k].judgeIndex = <<k - 1>>
                   /\ progressEvents[k].completedJudges = 0
              ELSE progressEvents[k].step \in {"judge_completed", "judge_failed", "aggregating"}

\* the last judge of three is the first to finish, and it fails
Wit_C34_LastJudgeFinishesFirst ==
    /\ stage = "running"
    /\ totalJudges = 3
    /\ Len(progressEvents) = 4
    /\ progressEvents[4].step = "judge_failed"
    /\ progressEvents[4].judgeIndex = <<2>>

(***************************************************************************)
(* The verdict and the order of completion                                 *)
(***************************************************************************)
\* the judges in the order they finished (indexes from 1)
FinishOrder ==
    LET F[k \in 0..Len(progressEvents)] ==
            IF k = 0 THEN <<>>
            ELSE IF progressEvents[k].step \in {"judge_completed", "judge_failed"}
                 THEN Append(F[k - 1], progressEvents[k].judgeIndex[1] + 1)
                 ELSE F[k - 1]
    IN  F[Len(progressEvents)]

\* the outcomes of the judges in the order of the judge list
OutcomesByJudge == [i \in 1..totalJudges |-> judges[i].result]

\* the number of judges whose outcome is a failure
FailuresByJudge == Cardinality({i \in 1..totalJudges : judges[i].result = <<>>})

\* C39: the verdict runCouncil returns is determined by the judge list and
\* the outcome of each judge: it is the aggregate of the outcomes taken in
\* the order of the list, whatever order the judges finished in.
Thm_C39_VerdictIgnoresFinishOrder ==
    stage = "returned" =>
        verdict[1] = Aggregate(FilterJudgments(OutcomesByJudge), FailuresByJudge)

\* two judges tied one vote each, the second finished first: the winner is
\* the vote of the first judge of the list
Wit_C39_TieFinishedInReverse ==
    /\ stage = "returned" /\ totalJudges = 2
    /\ FinishOrder = <<2, 1>>
    /\ judges[1].result[1].evaluation.winner = "B"
    /\ judges[2].result[1].evaluation.winner = "A"
    /\ verdict[1].finalWinner = "B"
    /\ verdict[1].individualJudgments = <<judges[1].result[1], judges[2].result[1]>>

(***************************************************************************)
(* Credits of a /judge/stream request                                      *)
(***************************************************************************)
\* the events of the given name written to the stream
EventsNamed(name) == {j \in 1..Len(sseEvents) : sseEvents[j].event = name}

\* C36 as stated: a /judge/stream request that was charged ends either with
\* the complete event and no refund, or without it and with exactly one
\* refund of the credits charged.
Cex_C36_VerdictOrOneRefund ==
    (route = "stream" /\ pipePc = "done" /\ creditCost > 0) =>
        \/ /\ Cardinality(EventsNamed("complete")) = 1
           /\ httpResponse[1].signedVerdict = signedVerdict /\ signedVerdict # <<>>
           /\ refunds = <<>>
        \/ /\ EventsNamed("complete") = {}
           /\ refunds = <<creditCost>>

(***************************************************************************)
(* Concurrent calls of useCredits                                          *)
(***************************************************************************)
\* the credits deducted by the calls among the first n that returned success
DeductedBy(n) ==
    LET F[k \in 0..n] ==
            IF k = 0 THEN 0
            ELSE F[k - 1] + (IF useCalls[k].result # <<>> /\ useCalls[k].result[1].success
                             THEN useCalls[k].result[1].cost ELSE 0)
    IN  F[n]

\* C37: however the statements of concurrent useCredits calls for the user
\* interleave, the balance is never negative, the calls that return success
\* deduct together no more than the balance there was before them, and what
\* is left of that balance is what the row holds once no call is in between
\* its UPDATE and its return.
Thm_C37_NeverOverdrawn ==
    /\ userCredits # <<>> => userCredits[1] >= 0
    /\ DeductedBy(MaxUseCalls) <= (IF openingCredits = <<>> THEN 0 ELSE openingCredits[1])
    /\ (openingCredits # <<>> /\ \A p \in 1..MaxUseCalls : useCalls[p].pc # "recording") =>
            userCredits[1] = openingCredits[1] - DeductedBy(MaxUseCalls)

\* balance 1 and two calls of cost 1 that both read the balance 1 before
\* either UPDATE ran: the first succeeded, the second found the row changed
Wit_C37_SecondCallLosesRace ==
    /\ openingCredits = <<1>>
    /\ useCalls[1].user = <<1>> /\ useCalls[2].user = <<1>>
    /\ useCalls[1].result = <<[success |-> TRUE, remaining |-> 0, cost |-> 1]>>
    /\ useCalls[2].result = <<[success |-> FALSE, remaining |-> 0, cost |-> 1]>>
    /\ userCredits = <<0>>

(***************************************************************************)
(* Deliveries of checkout.session.completed                                *)
(***************************************************************************)
\* the deliveries whose UPDATE of addCredits has run for the session
CreditedFor(session) ==
    {d \in 1..Len(webhookCalls) :
        webhookCalls[d].event.session = session /\ webhookCalls[d].updated # <<>>}

\* the credits the session was paid for, once it has been credited
PaidFor(session) ==
    IF CreditedFor(session) = {} THEN 0
    ELSE ParseInt(webhookCalls[CHOOSE d \in CreditedFor(session) : TRUE].event.metadata[1].credits)

\* C38 as stated: a paid checkout session adds its credits to the balance
\* exactly once, however often its event is delivered.
Cex_C38_SessionCreditedOnce ==
    openingCredits # <<>> =>
        userCredits[1] = openingCredits[1] + PaidFor("cs_1") + PaidFor("cs_2")

(***************************************************************************)
(* Termination of runCouncil                                               *)
(***************************************************************************)
\* C35: if every evaluation call eventually returns or fails, every run of
\* runCouncil eventually ends; a run that has ended holds a verdict or the
\* quorum error, never both, and none of its judges is still evaluating.
Thm_C35_RunTerminates ==
    /\ (stage = "running") ~> (stage \in {"returned", "threw"})
    /\ [](stage = "returned" => verdict # <<>> /\ error = <<>>)
    /\ [](stage = "threw" => error # <<>> /\ verdict = <<>>)
    /\ [](stage \in {"returned", "threw"} =>
              \A i \in 1..totalJudges : judges[i].pc \in {"completed", "failed"})

\* the longest run: every call of every judge failed
Wit_C35_EveryAttemptFailed ==
    /\ stage = "threw"
    /\ totalJudges = 3
    /\ failedJudges = 3
    /\ error = <<[succeeded |-> 0, total |-> 3]>>
====
